---- MODULE Spec2Model ----
(***************************************************************************)
(* The reactive core of xdom (src/src/signal-to-dom.ts): signals, lazily   *)
(* recomputed computeds, eager effects, the batch scheduler and the        *)
(* evaluation context.                                                     *)
(*                                                                         *)
(* The engine is synchronous and re-entrant.  Every function of the source *)
(* is an operator from engine state to engine state (a record `st` holding *)
(* every object field and every module-level variable), so a public        *)
(* operation is one action that runs the whole call tree: notification,    *)
(* drain, effect callbacks, nested refreshes.  A thrown exception is the   *)
(* field st.err; try/catch/finally are spelled out where the source has    *)
(* them.  User callbacks (the _fn of a computed or an effect) are small    *)
(* programs over the public interface, interpreted by Exec.                *)
(***************************************************************************)
EXTENDS Integers, Sequences, FiniteSets, TLC

----------------------------------------------------------------------------
(* Bounds of the model *)

\* plain signals hold values 0..MaxVal
MaxVal == 2
\* top-level writes are allowed while globalVersion is below this
MaxWrites == 2
\* the same for the programs that need a third change
MaxWritesLong == 3
\* and in the program whose every drain is a hundred passes long
MaxWritesShort == 1
\* depth of user batch(...) nesting at top level, in the programs about
\* nested batches and in the others
MaxNest == 2
MaxNestShallow == 1

----------------------------------------------------------------------------
(* Objects *)

Signals   == {"a", "b"}
Computeds == {"c", "d"}
Effects   == {"e", "f"}
Sources   == Signals \cup Computeds
Targets   == Computeds \cup Effects

\* the position of x in seq, 0 if it is not there
Pos(seq, x) ==
  IF \E i \in 1..Len(seq) : seq[i] = x
  THEN CHOOSE i \in 1..Len(seq) : seq[i] = x
  ELSE 0

\* `undefined` for object references / function references
Undef == "undefined"

\* A Node is identified by the pair <<source, target>> it links: the engine
\* holds at most one live Node per pair (checked as NoNodeAliasing).
NodeIds == Sources \X Targets
NoNode  == <<>>
NodeSource(n) == n[1]
NodeTarget(n) == n[2]

\* the value `undefined` of a computed that was never evaluated
Undefined == -1
\* thrown values: an Error thrown by a user callback, and the engine's two
NoErr         == 0
UserError     == -2
OtherError    == -5
BatchError    == -6
CycleDetected == -3
OutOfOrder    == -4
\* String(v): the string of the number n is StrBase + n
StrBase == 10
Str(v) == IF v >= StrBase THEN v ELSE v + StrBase
\* value of node._version marking a recyclable node
Recyclable == -1
\* Signal.set value throws once batchIteration exceeds this
CycleLimit == 100

Values == 0..MaxVal

BlankNode == [version |-> 0, prevSource |-> NoNode, nextSource |-> NoNode,
              prevTarget |-> NoNode, nextTarget |-> NoNode,
              rollbackNode |-> NoNode]

----------------------------------------------------------------------------
(* User callbacks.                                                         *)
(* A callback is a sequence of instructions over the public interface; the *)
(* local `acc` is the sum of the values read so far and is what a          *)
(* computed's callback returns.                                            *)

Rd(x)     == [op |-> "read", x |-> x, v |-> 0]       \* acc += x.value
Ut(x)     == [op |-> "untracked", x |-> x, v |-> 0]  \* acc += untracked(() => x.value)
Pk(x)     == [op |-> "peek", x |-> x, v |-> 0]       \* acc += x.peek()
RdIf(x)   == [op |-> "readIf", x |-> x, v |-> 0]     \* if (acc > 0) acc += x.value
Wr(x, v)  == [op |-> "write", x |-> x, v |-> v]      \* x.value = v
WrNot(x)  == [op |-> "writeNot", x |-> x, v |-> 0]   \* x.value = acc > 0 ? 0 : 1
ThrowIf   == [op |-> "throwIf", x |-> Undef, v |-> 0] \* if (acc > 0) throw new Error()
ThrowIf2  == [op |-> "throwIf2", x |-> Undef, v |-> 0] \* if (acc > 0) throw new TypeError()
\* the body of the effect of subscribe(fn) after `const value = this.value`:
\* fn(value) outside every context; fn logs the value and reads x.value
\* (nothing when x is Undef)
SubFn(x)  == [op |-> "subFn", x |-> x, v |-> 0]
\* `if (!made) { made = true; effect(p) }`, the effect created being f
Mk(f, p) == [op |-> "effect", x |-> f, v |-> 0, p |-> p]
\* `acc > 0 ? 1 : 0` of the value so far
Positive == [op |-> "positive", x |-> Undef, v |-> 0]
\* the same where fn is the subscriber of a DOM binding of the signal x:
\* of renderAndSubscribe, of subscribeAttribute for a key other than
\* "value", of subscribeAttribute for the key "value"
DomChild(x)     == [op |-> "domChild", x |-> x, v |-> 0]
DomAttr(x)      == [op |-> "domAttr", x |-> x, v |-> 0]
DomAttrValue(x) == [op |-> "domAttrValue", x |-> x, v |-> 0]
\* `stop` is the variable the program assigns the result of effect(...) to
DisposeIf == [op |-> "disposeIf", x |-> Undef, v |-> 0] \* if (acc > 0 && stop) stop()

\* kinds of cleanup function an effect callback can return
NoCleanup    == "none"
CleanupOk    == "ok"
CleanupThrow == "throws"

\* the callbacks, by name: those of computeds (c...) and of effects (e...)
FnBody(name) ==
  CASE name = "cA"     -> <<Rd("a")>>                 \* () => a.value
    [] name = "cCB"    -> <<Rd("c"), Rd("b")>>        \* () => c.value + b.value
    [] name = "cAifB"  -> <<Rd("a"), RdIf("b")>>      \* () => a.value > 0 ? a.value + b.value : 0
    [] name = "cAutB"  -> <<Rd("a"), Ut("b")>>        \* () => a.value + untracked(() => b.value)
    [] name = "cAthrow" -> <<Rd("a"), ThrowIf>>       \* () => { if (a.value > 0) throw ...; return 0 }
    [] name = "cPkAB"  -> <<Pk("a"), Rd("b")>>        \* () => a.peek() + b.value
    [] name = "cC"     -> <<Rd("c")>>                 \* () => c.value
    [] name = "cApos"  -> <<Rd("a"), Positive>>       \* () => a.value > 0 ? 1 : 0
    [] name = "cAD"    -> <<Rd("a"), Rd("d")>>        \* () => a.value + d.value
    [] name = "eA"     -> <<Rd("a")>>
    [] name = "eC"     -> <<Rd("c")>>
    [] name = "eD"     -> <<Rd("d")>>
    [] name = "eB"     -> <<Rd("b")>>
    [] name = "eCD"    -> <<Rd("c"), Rd("d")>>
    [] name = "eAutB"  -> <<Rd("a"), Ut("b")>>
    [] name = "eButD"  -> <<Rd("b"), Ut("d")>>
    [] name = "eBwrA"  -> <<Rd("b"), Wr("a", 0)>>        \* () => { b.value; a.value = 0 }
    [] name = "eAmkF"  -> <<Rd("a"), Mk("f", "eAclThrow"), Ut("b")>>
    [] name = "eDmkF"  -> <<Rd("d"), Mk("f", "eAthrow"), Pk("b")>>
    [] name = "eAzero" -> <<Rd("a"), Wr("a", 0)>>        \* () => { a.value; a.value = 0 }
    [] name = "eAflip" -> <<Rd("a"), WrNot("a")>>      \* () => { a.value = a.value > 0 ? 0 : 1 }
    [] name = "eAthrow" -> <<Rd("a"), ThrowIf>>
    [] name = "eAthrow2" -> <<Rd("a"), ThrowIf2>>
    [] name = "eAthrowB" -> <<Rd("a"), ThrowIf, Rd("b")>> \* () => { if (a.value > 0) throw ...; b.value }
    [] name = "cAthrowB" -> <<Rd("a"), ThrowIf, Rd("b")>> \* () => { if (a.value > 0) throw ...; return b.value }
    [] name = "eAdispIf" -> <<Rd("a"), DisposeIf>>
    [] name = "eAdispB"  -> <<Rd("a"), DisposeIf, RdIf("b")>> \* () => { if (a.value > 0) { stop(); b.value }; return () => {} }
    [] name = "eAifB"    -> <<Rd("a"), RdIf("b")>>     \* () => { if (a.value > 0) b.value }
    [] name = "eAifC"    -> <<Rd("a"), RdIf("c")>>     \* () => { if (a.value > 0) c.value }
    [] name = "eNone"    -> <<>>                       \* () => { log(a) }: the object, not a.value
    [] name = "ePkAB"    -> <<Pk("a"), Rd("b")>>       \* () => { a.peek(); b.value }
    [] name = "ePkDB"    -> <<Pk("d"), Rd("b")>>       \* () => { d.peek(); b.value }
    [] name = "sA"       -> <<Rd("a"), SubFn(Undef)>>  \* a.subscribe(v => log(v))
    [] name = "sAfnB"    -> <<Rd("a"), SubFn("b")>>    \* a.subscribe(v => { log(v); b.value })
    [] name = "sCfnB"    -> <<Rd("c"), SubFn("b")>>    \* c.subscribe(v => { log(v); b.value })
    [] name = "domChild" -> <<Rd("a"), DomChild("a")>>
    [] name = "domAttr"  -> <<Rd("a"), DomAttr("a")>>
    [] name = "domAttrValue" -> <<Rd("a"), DomAttrValue("a")>>
    [] name = "eAcl"     -> <<Rd("a")>>                \* () => { a.value; return () => {} }
    [] name = "eAclIf"   -> <<Rd("a")>>                \* () => a.value > 0 ? () => {} : undefined
    [] name = "eAclThrow" -> <<Rd("a")>>               \* () => a.value > 0 ? () => { throw ... } : () => {}
    [] OTHER           -> <<>>

\* what the callback returns when it ends with `acc`: a cleanup function or not
FnCleanup(name, acc) ==
  CASE name = "eAdispIf" -> IF acc > 0 THEN CleanupThrow ELSE NoCleanup
    [] name = "eAdispB"  -> CleanupOk
    [] name = "eAcl"     -> CleanupOk
    [] name = "eAclIf"   -> IF acc > 0 THEN CleanupOk ELSE NoCleanup
    [] name = "eAclThrow" -> IF acc > 0 THEN CleanupThrow ELSE CleanupOk
    [] OTHER             -> NoCleanup

----------------------------------------------------------------------------
(* State *)

VARIABLES
  value,             \* Signal._value, by source
  version,           \* Signal._version
  node,              \* Signal._node
  targets,           \* Signal._targets (head of the target list)
  sources,           \* Computed._sources / Effect._sources
  flags,             \* Computed._flags / Effect._flags, as a set of flag names
  fn,                \* Computed._fn / Effect._fn
  cGlobalVersion,    \* Computed._globalVersion
  cleanup,           \* Effect._cleanup
  nextBatchedEffect, \* Effect._nextBatchedEffect
  nodes,             \* the fields of every Node
  evalContext,       \* module variable evalContext
  batchedEffect,     \* module variable batchedEffect
  batchDepth,        \* module variable batchDepth
  batchIteration,    \* module variable batchIteration
  globalVersion,     \* module variable globalVersion
  userBatch,         \* the open batch(fn) calls of the top-level program:
                     \* for each, whether it called startBatch
  lastOp,            \* the public operation the last step performed
  thrown,            \* what that operation threw (NoErr: it returned)
  result,            \* what that operation returned
  menu,              \* what the top-level program may do: the callbacks it
                     \* gives each effect, the values it writes to each
                     \* signal, the computeds it reads
  dom,               \* the element each DOM binding was made for (see NewElement)
  obs,               \* what happened inside the last step (see NewObs)
  hist,              \* what each effect read in its latest run, the effects
                     \* whose dispose() has returned, the effects whose
                     \* first run threw, the effects whose dispose() was
                     \* called during a run, the sources each effect ever
                     \* read, the effects notified since the queue was last
                     \* taken (in order), the targets subscribed to each
                     \* source (in order), and the effects whose latest run
                     \* returned a cleanup function not invoked yet
  list               \* the array held by the signal given to SignalsToDoms,
                     \* what the callback of the last map() returned for
                     \* each item, and the elements map() returned

engine == <<value, version, node, targets, sources, flags, fn, cGlobalVersion,
            cleanup, nextBatchedEffect, nodes, evalContext, batchedEffect,
            batchDepth, batchIteration, globalVersion>>
vars == <<value, version, node, targets, sources, flags, fn, cGlobalVersion,
          cleanup, nextBatchedEffect, nodes, evalContext, batchedEffect,
          batchDepth, batchIteration, globalVersion, userBatch, lastOp,
          thrown, result, menu, dom, obs, hist, list>>

\* An element, before createDomElement or SignalToElement has bound it:
\* bound (how the signal was given to it), alive (its WeakRef resolves),
\* input (it is an <input>), prop (the property the key names), attr (the
\* attribute the key names), text (textContent), listeners (its "input"
\* event listeners), typed (the value the user typed last)
NoValue == -8
NewElement == [bound |-> Undef, alive |-> TRUE, input |-> FALSE,
               prop |-> NoValue, attr |-> NoValue, text |-> NoValue,
               listeners |-> 0, typed |-> NoValue]

\* no array was stored and map() was not called
NoList == [items |-> <<>>, returned |-> <<>>, elements |-> <<>>]

\* Observations are reset at the start of every step.
NewObs == [runs      |-> [e \in Effects |-> 0],    \* invocations of e's callback
           calls     |-> [c \in Computeds |-> 0],  \* invocations of c's callback
           reads     |-> {},     \* <<computed, evalContext, in a batch>> of each computed .value read
           peeks     |-> {},     \* <<source, evalContext>> of each peek()
           badPeeks  |-> {},     \* sources whose peek() did not return their current value
           badReads  |-> {},     \* computeds whose .value read disagreed with its callback
           notified  |-> {},     \* targets whose _notify() took effect
           notifySeq |-> <<>>,   \* the same, in the order of the calls
           notifyCalls |-> [t \in Targets |-> 0], \* calls of t._notify()
           passes    |-> 0,      \* passes of the outer loop of endBatch
           active    |-> {},     \* the effects whose callback is executing
           reentered |-> {},     \* effects whose callback started while it was executing
           unbatched |-> {},     \* effects whose callback started at batch depth 0
           startFailed |-> {},   \* effects whose _start threw what the cleanup function threw
           startUnrestored |-> {}, \* those of them that left evalContext or batchDepth changed
           guarded   |-> {},     \* effects whose _start found RUNNING set
           finalized |-> 0,      \* calls of the finalizer of an effect
           outOfOrder |-> {},    \* effects whose finalizer found another evaluation context
           misqueued |-> FALSE,  \* a drain found the queue and the NOTIFIED flags at odds
           drained   |-> <<>>,   \* the effects the first pass took from the queue, in the order they were notified
           runSeq    |-> <<>>,   \* the effects whose callback ran before a second pass began, in order
           changed   |-> [s \in Signals |-> 0], \* value-changing writes, by signal
           refused   |-> {},     \* <<signal, batchIteration>> of each write of a different value that threw
           unrestored |-> {},    \* operations that left evalContext or batchDepth changed
           errors    |-> <<>>,   \* what the effect callbacks run by endBatch threw, in order
           threw     |-> {},     \* <<target, error>> of each callback that threw
           told      |-> [e \in Effects |-> <<>>], \* the values the fn of subscribe(fn) was called with
           domOps    |-> [e \in Effects |-> 0], \* operations on the element of the binding
           returned  |-> {},     \* targets whose callback returned
           deferred  |-> {},     \* effects whose dispose() was called during their run
           cleaned   |-> [e \in Effects |-> 0], \* invocations of a cleanup function of e
           miscleaned |-> {},    \* <<effect, what went wrong with a cleanup function of it>>
           aliased   |-> FALSE]  \* a Node was created for a pair that has a live Node

NotRead == -9
NewHist == [seen     |-> [e \in Effects |-> [x \in Sources |-> NotRead]],
            disposed |-> {},
            failed   |-> {},
            deferred |-> {},
            everRead |-> [e \in Effects |-> {}],
            readSeq  |-> [t \in Targets |-> <<>>],
            threwLast |-> {},
            pending  |-> <<>>,
            subscribed |-> [x \in Sources |-> <<>>],
            owed     |-> [e \in Effects |-> FALSE]]

\* The engine state as one record, with the registers of the call in flight:
\* err (the exception being thrown), ret (a returned value), dep (the Node
\* addDependency returned), refreshed / need (the booleans _refresh and
\* needsToRecompute returned), fin (the context bound into the finalizer),
\* creating (the effect whose effect(...) call has not returned yet).
State ==
  [value |-> value, version |-> version, node |-> node, targets |-> targets,
   sources |-> sources, flags |-> flags, fn |-> fn,
   cGlobalVersion |-> cGlobalVersion, cleanup |-> cleanup,
   nextBatchedEffect |-> nextBatchedEffect, nodes |-> nodes,
   evalContext |-> evalContext, batchedEffect |-> batchedEffect,
   batchDepth |-> batchDepth, batchIteration |-> batchIteration,
   globalVersion |-> globalVersion,
   err |-> NoErr, ret |-> Undefined, dep |-> NoNode, refreshed |-> TRUE,
   need |-> FALSE, fin |-> Undef, creating |-> Undef,
   dom |-> dom, obs |-> NewObs, hist |-> hist]

Install(st) ==
  /\ value' = st.value
  /\ version' = st.version
  /\ node' = st.node
  /\ targets' = st.targets
  /\ sources' = st.sources
  /\ flags' = st.flags
  /\ fn' = st.fn
  /\ cGlobalVersion' = st.cGlobalVersion
  /\ cleanup' = st.cleanup
  /\ nextBatchedEffect' = st.nextBatchedEffect
  /\ nodes' = st.nodes
  /\ evalContext' = st.evalContext
  /\ batchedEffect' = st.batchedEffect
  /\ batchDepth' = st.batchDepth
  /\ batchIteration' = st.batchIteration
  /\ globalVersion' = st.globalVersion
  /\ thrown' = st.err
  /\ result' = IF st.err = NoErr THEN st.ret ELSE Undefined
  /\ dom' = st.dom
  /\ obs' = st.obs
  /\ hist' = st.hist
  /\ list' = list

\* throw e
Throw(st, e) == [st EXCEPT !.err = e]
\* the state in which a finally block (or a catch block) starts running
Caught(st) == [st EXCEPT !.err = NoErr]
\* leaving a finally block entered with exception `saved`: an exception of
\* the block itself wins, otherwise the saved one is thrown again
Rethrow(st, saved) == IF st.err # NoErr THEN st ELSE [st EXCEPT !.err = saved]

----------------------------------------------------------------------------
(* Target lists *)

\* The functions of the engine call one another in cycles (a write runs
\* effects, which read computeds, which run callbacks, which write ...): a
\* call f(a, b) made in state st is written Call("f", st, <<a, b>>) and is
\* dispatched by Call, defined after them.
RECURSIVE Call(_, _, _)

\* the nodes of a list, from `n` along `field`
RECURSIVE Chain(_, _, _)
Chain(nd, n, field) ==
  IF n = NoNode THEN <<>> ELSE <<n>> \o Chain(nd, nd[n][field], field)

\* the sequence without x
RECURSIVE Without(_, _)
Without(seq, x) ==
  IF seq = <<>> THEN <<>>
  ELSE IF Head(seq) = x THEN Without(Tail(seq), x)
  ELSE <<Head(seq)>> \o Without(Tail(seq), x)

\* a faulty Signal._subscribe that adds the node at the end of the target
\* list (C25 depends on the insertion at the head)
SignalSubscribeAtEnd(st, s, n) ==
  IF st.targets[s] # n /\ st.nodes[n].prevTarget = NoNode
  THEN LET chain == Chain(st.nodes, st.targets[s], "nextTarget")
           g == [st EXCEPT !.hist.subscribed[s] = Append(@, NodeTarget(n))]
       IN IF chain = <<>> THEN [g EXCEPT !.targets[s] = n]
          ELSE [g EXCEPT !.nodes[chain[Len(chain)]].nextTarget = n,
                         !.nodes[n].prevTarget = chain[Len(chain)]]
  ELSE st

\* Signal._subscribe
SignalSubscribe(st, s, n) ==
  IF st.targets[s] # n /\ st.nodes[n].prevTarget = NoNode
  THEN LET head == st.targets[s]
           st1 == [st EXCEPT !.nodes[n].nextTarget = head]
           st2 == IF head # NoNode
                  THEN [st1 EXCEPT !.nodes[head].prevTarget = n]
                  ELSE st1
       IN [st2 EXCEPT !.targets[s] = n,
                      !.hist.subscribed[s] = Append(@, NodeTarget(n))]
  ELSE st

\* a faulty Signal._unsubscribe that leaves _targets pointing at the node
\* it unlinked (C34 depends on the update of the head)
SignalUnsubscribeKeepsHead(st, s, n) ==
  IF st.targets[s] # NoNode
  THEN LET prev == st.nodes[n].prevTarget
           next == st.nodes[n].nextTarget
           st1 == IF prev # NoNode
                  THEN [st EXCEPT !.nodes[prev].nextTarget = next,
                                  !.nodes[n].prevTarget = NoNode]
                  ELSE st
           st2 == IF next # NoNode
                  THEN [st1 EXCEPT !.nodes[next].prevTarget = prev,
                                   !.nodes[n].nextTarget = NoNode]
                  ELSE st1
       IN [st2 EXCEPT !.hist.subscribed[s] =
                         IF prev # NoNode \/ next # NoNode \/ n = st.targets[s]
                         THEN Without(@, NodeTarget(n)) ELSE @]
  ELSE st

\* Signal._unsubscribe
SignalUnsubscribe(st, s, n) ==
  IF st.targets[s] # NoNode
  THEN LET prev == st.nodes[n].prevTarget
           next == st.nodes[n].nextTarget
           st1 == IF prev # NoNode
                  THEN [st EXCEPT !.nodes[prev].nextTarget = next,
                                  !.nodes[n].prevTarget = NoNode]
                  ELSE st
           st2 == IF next # NoNode
                  THEN [st1 EXCEPT !.nodes[next].prevTarget = prev,
                                   !.nodes[n].nextTarget = NoNode]
                  ELSE st1
           st3 == [st2 EXCEPT !.hist.subscribed[s] =
                                 IF prev # NoNode \/ next # NoNode \/ n = st.targets[s]
                                 THEN Without(@, NodeTarget(n)) ELSE @]
       IN IF n = st.targets[s] THEN [st3 EXCEPT !.targets[s] = next] ELSE st3
  ELSE st

\* the loop `for (node = this._sources; ...) node._source._subscribe(node)`
SubscribeSources(st, n) ==
  IF n = NoNode THEN st
  ELSE LET st1 == Call("Subscribe", st, <<NodeSource(n), n>>)
       IN Call("SubscribeSources", st1, <<st1.nodes[n].nextSource>>)

\* a faulty Computed._subscribe that sets the flags on its first target
\* without subscribing to its own sources (C30 depends on the loop)
ComputedSubscribeWithoutSources(st, c, n) ==
  LET st1 == IF st.targets[c] = NoNode
             THEN [st EXCEPT !.flags[c] = @ \cup {"OUTDATED", "TRACKING"}]
             ELSE st
  IN SignalSubscribe(st1, c, n)

\* Computed._subscribe
ComputedSubscribe(st, c, n) ==
  LET st1 == IF st.targets[c] = NoNode
             THEN Call("SubscribeSources", [st EXCEPT !.flags[c] = @ \cup {"OUTDATED", "TRACKING"}], <<st.sources[c]>>)
             ELSE st
  IN SignalSubscribe(st1, c, n)

\* source._subscribe(node), dispatched on the class of the source
Subscribe(st, x, n) ==
  IF x \in Computeds THEN ComputedSubscribe(st, x, n)
  ELSE SignalSubscribe(st, x, n)

\* the loop `for (node = this._sources; ...) node._source._unsubscribe(node)`
UnsubscribeSources(st, n) ==
  IF n = NoNode THEN st
  ELSE LET st1 == Call("Unsubscribe", st, <<NodeSource(n), n>>)
       IN Call("UnsubscribeSources", st1, <<st1.nodes[n].nextSource>>)

\* a faulty Computed._unsubscribe that stays subscribed to its own sources
\* when its last target leaves (C7 depends on the unsubscription)
ComputedUnsubscribeKeepsSources(st, c, n) ==
  IF st.targets[c] # NoNode
  THEN LET st1 == SignalUnsubscribe(st, c, n)
       IN IF st1.targets[c] = NoNode
          THEN [st1 EXCEPT !.flags[c] = @ \ {"TRACKING"}]
          ELSE st1
  ELSE st

\* Computed._unsubscribe
ComputedUnsubscribe(st, c, n) ==
  IF st.targets[c] # NoNode
  THEN LET st1 == SignalUnsubscribe(st, c, n)
       IN IF st1.targets[c] = NoNode
          THEN Call("UnsubscribeSources", [st1 EXCEPT !.flags[c] = @ \ {"TRACKING"}], <<st1.sources[c]>>)
          ELSE st1
  ELSE st

\* source._unsubscribe(node), dispatched on the class of the source
Unsubscribe(st, x, n) ==
  IF x \in Computeds THEN ComputedUnsubscribe(st, x, n)
  ELSE SignalUnsubscribe(st, x, n)

----------------------------------------------------------------------------
(* Dependency recording *)

\* whether pair n already has a Node linked in a list (for NoNodeAliasing)
Linked(st, n) ==
  \/ \E i \in 1..Len(Chain(st.nodes, st.targets[NodeSource(n)], "nextTarget")) :
        Chain(st.nodes, st.targets[NodeSource(n)], "nextTarget")[i] = n
  \/ \E i \in 1..Len(Chain(st.nodes, st.sources[NodeTarget(n)], "prevSource")) :
        Chain(st.nodes, st.sources[NodeTarget(n)], "prevSource")[i] = n
  \/ \E i \in 1..Len(Chain(st.nodes, st.sources[NodeTarget(n)], "nextSource")) :
        Chain(st.nodes, st.sources[NodeTarget(n)], "nextSource")[i] = n

\* addDependency: the returned Node is st.dep
addDependency(st, x) ==
  IF st.evalContext = Undef THEN [st EXCEPT !.dep = NoNode]
  ELSE
    LET ctx  == st.evalContext
        old  == st.node[x]
        tail == st.sources[ctx]
    IN IF old = NoNode \/ NodeTarget(old) # ctx
       THEN LET n    == <<x, ctx>>
                st1  == [st EXCEPT !.nodes[n] =
                           [version |-> 0, prevSource |-> tail,
                            nextSource |-> NoNode, prevTarget |-> NoNode,
                            nextTarget |-> NoNode, rollbackNode |-> old]]
                st2  == IF tail # NoNode
                        THEN [st1 EXCEPT !.nodes[tail].nextSource = n]
                        ELSE st1
                st3  == [st2 EXCEPT !.sources[ctx] = n, !.node[x] = n]
                st4  == IF "TRACKING" \in st.flags[ctx]
                        THEN Call("Subscribe", st3, <<x, n>>)
                        ELSE st3
            IN [st4 EXCEPT !.dep = n, !.obs.aliased = @ \/ Linked(st, n)]
       ELSE IF st.nodes[old].version = Recyclable
       THEN LET st1 == [st EXCEPT !.nodes[old].version = 0]
                nx  == st.nodes[old].nextSource
                pv  == st.nodes[old].prevSource
                st2 == IF nx # NoNode
                       THEN LET a == [st1 EXCEPT !.nodes[nx].prevSource = pv]
                                b == IF pv # NoNode
                                     THEN [a EXCEPT !.nodes[pv].nextSource = nx]
                                     ELSE a
                                c == [b EXCEPT !.nodes[old].prevSource = tail,
                                               !.nodes[old].nextSource = NoNode]
                                d == [c EXCEPT !.nodes[tail].nextSource = old]
                            IN [d EXCEPT !.sources[ctx] = old]
                       ELSE st1
            IN [st2 EXCEPT !.dep = old]
       ELSE [st EXCEPT !.dep = NoNode]

\* A Node nothing refers to any more is garbage: its record is cleared.
Collect(st, n) == [st EXCEPT !.nodes[n] = BlankNode]

RECURSIVE CollectSources(_, _)
CollectSources(st, n) ==
  IF n = NoNode THEN st
  ELSE CollectSources(Collect(st, n), st.nodes[n].nextSource)

\* prepareSources
RECURSIVE prepareLoop(_, _, _)
prepareLoop(st, t, n) ==
  IF n = NoNode THEN st
  ELSE LET src == NodeSource(n)
           rollbackNode == st.node[src]
           st1 == IF rollbackNode # NoNode
                  THEN [st EXCEPT !.nodes[n].rollbackNode = rollbackNode]
                  ELSE st
           st2 == [st1 EXCEPT !.node[src] = n, !.nodes[n].version = Recyclable]
       IN IF st2.nodes[n].nextSource = NoNode
          THEN [st2 EXCEPT !.sources[t] = n]
          ELSE prepareLoop(st2, t, st2.nodes[n].nextSource)

prepareSources(st, t) == prepareLoop(st, t, st.sources[t])

\* cleanupSources
RECURSIVE cleanupLoop(_, _, _, _)
cleanupLoop(st, t, n, head) ==
  IF n = NoNode THEN [st EXCEPT !.sources[t] = head]
  ELSE LET prev == st.nodes[n].prevSource
           drop == st.nodes[n].version = Recyclable
           st1  == IF drop
                   THEN LET u  == Call("Unsubscribe", st, <<NodeSource(n), n>>)
                            nx == u.nodes[n].nextSource
                            u1 == IF prev # NoNode
                                  THEN [u EXCEPT !.nodes[prev].nextSource = nx]
                                  ELSE u
                        IN IF nx # NoNode
                           THEN [u1 EXCEPT !.nodes[nx].prevSource = prev]
                           ELSE u1
                   ELSE st
           st2  == [st1 EXCEPT !.node[NodeSource(n)] = st1.nodes[n].rollbackNode,
                               !.nodes[n].rollbackNode = NoNode]
       IN cleanupLoop(IF drop THEN Collect(st2, n) ELSE st2, t, prev,
                      IF drop THEN head ELSE n)

cleanupSources(st, t) == cleanupLoop(st, t, st.sources[t], NoNode)

----------------------------------------------------------------------------
(* What a callback would produce from the current values, computed without *)
(* the engine: the reference a computed's value is compared with.          *)

MaxPureDepth == 3

RECURSIVE PureExec(_, _, _, _, _)
PureRead(st, x, depth) ==
  IF x \in Signals THEN st.value[x]
  ELSE IF depth = 0 THEN CycleDetected
  ELSE PureExec(st, FnBody(st.fn[x]), 1, 0, depth - 1)

PureExec(st, body, i, acc, depth) ==
  IF i > Len(body) THEN acc
  ELSE LET ins == body[i]
       IN IF ins.op \in {"read", "untracked", "peek"}
             \/ (ins.op = "readIf" /\ acc > 0)
          THEN LET v == PureRead(st, ins.x, depth)
               IN IF v < 0 THEN v ELSE PureExec(st, body, i + 1, acc + v, depth)
          ELSE IF ins.op = "throwIf" /\ acc > 0 THEN UserError
          ELSE IF ins.op = "positive"
          THEN PureExec(st, body, i + 1, IF acc > 0 THEN 1 ELSE 0, depth)
          ELSE PureExec(st, body, i + 1, acc, depth)

PureVal(st, c) == PureRead(st, c, MaxPureDepth)

\* the callback reads its inputs through tracked .value reads only
RECURSIVE TrackedOnlyBody(_, _, _)
TrackedOnlyBody(st, body, depth) ==
  \A i \in 1..Len(body) :
    /\ body[i].op \in {"read", "readIf", "throwIf", "positive"}
    /\ (body[i].op \in {"read", "readIf"} /\ body[i].x \in Computeds)
          => (depth > 0 /\ TrackedOnlyBody(st, FnBody(st.fn[body[i].x]), depth - 1))

TrackedOnly(st, c) == TrackedOnlyBody(st, FnBody(st.fn[c]), MaxPureDepth)

----------------------------------------------------------------------------
(* The engine *)

\* startBatch
startBatch(st) == [st EXCEPT !.batchDepth = @ + 1]

\* needsToRecompute: the result is st.need
needsLoop(st, n) ==
  IF n = NoNode THEN [st EXCEPT !.need = FALSE]
  ELSE LET src == NodeSource(n)
       IN IF st.version[src] # st.nodes[n].version
          THEN [st EXCEPT !.need = TRUE]
          ELSE LET r == Call("Refresh", st, <<src>>)
               IN IF ~r.refreshed \/ r.version[src] # r.nodes[n].version
                  THEN [r EXCEPT !.need = TRUE]
                  ELSE Call("needsLoop", r, <<r.nodes[n].nextSource>>)

needsToRecompute(st, t) == Call("needsLoop", st, <<st.sources[t]>>)

\* a faulty evaluation that stores what the callback threw without setting
\* HAS_ERROR (C14 depends on the flag)
recomputeForgetsError(st, c) ==
  LET prevContext == st.evalContext
      p  == Call("prepareSources", st, <<c>>)
      r  == Call("RunFn", [p EXCEPT !.evalContext = c], <<c>>)
      s  == [Caught(r) EXCEPT !.value[c] = IF r.err = NoErr THEN r.ret ELSE r.err,
                              !.flags[c] = @ \ {"HAS_ERROR"},
                              !.version[c] = @ + 1]
      k  == Call("cleanupSources", [s EXCEPT !.evalContext = prevContext], <<c>>)
  IN [k EXCEPT !.flags[c] = @ \ {"RUNNING"}, !.refreshed = TRUE]

\* a faulty evaluation that stores every value the callback returns as a
\* new version (C28 depends on the comparison with the previous value)
recomputeAlwaysBumps(st, c) ==
  LET prevContext == st.evalContext
      p  == Call("prepareSources", st, <<c>>)
      r  == Call("RunFn", [p EXCEPT !.evalContext = c], <<c>>)
      s  == IF r.err = NoErr
            THEN [r EXCEPT !.value[c] = r.ret,
                           !.flags[c] = @ \ {"HAS_ERROR"},
                           !.version[c] = @ + 1]
            ELSE [Caught(r) EXCEPT !.value[c] = r.err,
                                   !.flags[c] = @ \cup {"HAS_ERROR"},
                                   !.version[c] = @ + 1]
      k  == Call("cleanupSources", [s EXCEPT !.evalContext = prevContext], <<c>>)
  IN [k EXCEPT !.flags[c] = @ \ {"RUNNING"}, !.refreshed = TRUE]

\* a faulty evaluation that leaves the computed as the evaluation context
\* (C36 depends on the restoration)
recomputeKeepsContext(st, c) ==
  LET p  == Call("prepareSources", st, <<c>>)
      r  == Call("RunFn", [p EXCEPT !.evalContext = c], <<c>>)
      s  == IF r.err = NoErr
            THEN IF "HAS_ERROR" \in r.flags[c] \/ r.value[c] # r.ret
                    \/ r.version[c] = 0
                 THEN [r EXCEPT !.value[c] = r.ret,
                                !.flags[c] = @ \ {"HAS_ERROR"},
                                !.version[c] = @ + 1]
                 ELSE r
            ELSE [Caught(r) EXCEPT !.value[c] = r.err,
                                   !.flags[c] = @ \cup {"HAS_ERROR"},
                                   !.version[c] = @ + 1]
      k  == Call("cleanupSources", s, <<c>>)
  IN [k EXCEPT !.flags[c] = @ \ {"RUNNING"}, !.refreshed = TRUE]

\* a faulty evaluation that does not call cleanupSources (C33 depends on it)
recomputeWithoutCleanup(st, c) ==
  LET prevContext == st.evalContext
      p  == Call("prepareSources", st, <<c>>)
      r  == Call("RunFn", [p EXCEPT !.evalContext = c], <<c>>)
      s  == IF r.err = NoErr
            THEN IF "HAS_ERROR" \in r.flags[c] \/ r.value[c] # r.ret
                    \/ r.version[c] = 0
                 THEN [r EXCEPT !.value[c] = r.ret,
                                !.flags[c] = @ \ {"HAS_ERROR"},
                                !.version[c] = @ + 1]
                 ELSE r
            ELSE [Caught(r) EXCEPT !.value[c] = r.err,
                                   !.flags[c] = @ \cup {"HAS_ERROR"},
                                   !.version[c] = @ + 1]
  IN [s EXCEPT !.evalContext = prevContext,
               !.flags[c] = @ \ {"RUNNING"}, !.refreshed = TRUE]

\* the body of Computed._refresh from `const prevContext = evalContext` on
recompute(st, c) ==
  LET prevContext == st.evalContext
      p  == Call("prepareSources", st, <<c>>)
      r  == Call("RunFn", [p EXCEPT !.evalContext = c], <<c>>)
      s  == IF r.err = NoErr
            THEN IF "HAS_ERROR" \in r.flags[c] \/ r.value[c] # r.ret
                    \/ r.version[c] = 0
                 THEN [r EXCEPT !.value[c] = r.ret,
                                !.flags[c] = @ \ {"HAS_ERROR"},
                                !.version[c] = @ + 1]
                 ELSE r
            ELSE [Caught(r) EXCEPT !.value[c] = r.err,
                                   !.flags[c] = @ \cup {"HAS_ERROR"},
                                   !.version[c] = @ + 1]
      k  == Call("cleanupSources", [s EXCEPT !.evalContext = prevContext], <<c>>)
  IN [k EXCEPT !.flags[c] = @ \ {"RUNNING"}, !.refreshed = TRUE]

\* a faulty Computed._refresh that calls the callback on every refresh
\* (C6 depends on the flags and versions that avoid it)
ComputedRefreshAlways(st, c) ==
  LET s0 == [st EXCEPT !.flags[c] = @ \ {"NOTIFIED"}]
  IN IF "RUNNING" \in s0.flags[c] THEN [s0 EXCEPT !.refreshed = FALSE]
     ELSE Call("recompute", [s0 EXCEPT !.flags[c] = (@ \ {"OUTDATED"}) \cup {"RUNNING"},
                               !.cGlobalVersion[c] = s0.globalVersion], <<c>>)

\* a faulty Computed._refresh that calls the callback whenever any signal
\* was written since the last refresh (C29 depends on needsToRecompute)
ComputedRefreshOnAnyWrite(st, c) ==
  LET s0 == [st EXCEPT !.flags[c] = @ \ {"NOTIFIED"}]
  IN IF "RUNNING" \in s0.flags[c] THEN [s0 EXCEPT !.refreshed = FALSE]
     ELSE IF "TRACKING" \in s0.flags[c] /\ "OUTDATED" \notin s0.flags[c]
     THEN [s0 EXCEPT !.refreshed = TRUE]
     ELSE LET s1 == [s0 EXCEPT !.flags[c] = @ \ {"OUTDATED"}]
          IN IF s1.cGlobalVersion[c] = s1.globalVersion
             THEN [s1 EXCEPT !.refreshed = TRUE]
             ELSE Call("recompute",
                       [s1 EXCEPT !.cGlobalVersion[c] = s1.globalVersion,
                                  !.flags[c] = @ \cup {"RUNNING"}], <<c>>)

\* Computed._refresh: the result is st.refreshed
ComputedRefresh(st, c) ==
  LET s0 == [st EXCEPT !.flags[c] = @ \ {"NOTIFIED"}]
  IN IF "RUNNING" \in s0.flags[c] THEN [s0 EXCEPT !.refreshed = FALSE]
     ELSE IF "TRACKING" \in s0.flags[c] /\ "OUTDATED" \notin s0.flags[c]
     THEN [s0 EXCEPT !.refreshed = TRUE]
     ELSE LET s1 == [s0 EXCEPT !.flags[c] = @ \ {"OUTDATED"}]
          IN IF s1.cGlobalVersion[c] = s1.globalVersion
             THEN [s1 EXCEPT !.refreshed = TRUE]
             ELSE LET s2 == [s1 EXCEPT !.cGlobalVersion[c] = s1.globalVersion,
                                       !.flags[c] = @ \cup {"RUNNING"}]
                  IN IF s2.version[c] > 0
                     THEN LET n == needsToRecompute(s2, c)
                          IN IF ~n.need
                             THEN [n EXCEPT !.flags[c] = @ \ {"RUNNING"},
                                            !.refreshed = TRUE]
                             ELSE Call("recompute", n, <<c>>)
                     ELSE Call("recompute", s2, <<c>>)

\* source._refresh(), dispatched: Signal._refresh returns true
Refresh(st, x) ==
  IF x \in Computeds THEN Call("ComputedRefresh", st, <<x>>)
  ELSE [st EXCEPT !.refreshed = TRUE]

\* Signal.get value
SignalGetValue(st, s) ==
  LET a == Call("addDependency", st, <<s>>)
      b == IF a.dep # NoNode
           THEN [a EXCEPT !.nodes[a.dep].version = a.version[s]]
           ELSE a
  IN [b EXCEPT !.ret = b.value[s]]

\* a faulty Computed.get value that, read while it is being evaluated,
\* returns the value held instead of throwing (C13 depends on the throw)
ComputedGetValueWhileRunning(st, c) ==
  IF "RUNNING" \in st.flags[c] THEN [st EXCEPT !.ret = st.value[c]]
  ELSE LET a == Call("addDependency", st, <<c>>)
           n == a.dep
           r == Call("ComputedRefresh", a, <<c>>)
           b == IF n # NoNode
                THEN [r EXCEPT !.nodes[n].version = r.version[c]]
                ELSE r
       IN IF "HAS_ERROR" \in b.flags[c] THEN Throw(b, b.value[c])
          ELSE [b EXCEPT !.ret = b.value[c]]

\* Computed.get value
ComputedGetValue(st, c) ==
  IF "RUNNING" \in st.flags[c] THEN Throw(st, CycleDetected)
  ELSE LET a == Call("addDependency", st, <<c>>)
           n == a.dep
           r == Call("ComputedRefresh", a, <<c>>)
           b == IF n # NoNode
                THEN [r EXCEPT !.nodes[n].version = r.version[c]]
                ELSE r
           o == [b EXCEPT
                   !.obs.reads = @ \cup {<<c, st.evalContext, st.batchDepth > 0>>},
                   !.obs.badReads =
                      IF TrackedOnly(b, c) /\ b.value[c] # PureVal(b, c)
                      THEN @ \cup {c} ELSE @]
       IN IF "HAS_ERROR" \in o.flags[c] THEN Throw(o, o.value[c])
          ELSE [o EXCEPT !.ret = o.value[c]]

\* x.value, dispatched on the class of x
GetValue(st, x) ==
  IF x \in Computeds THEN Call("ComputedGetValue", st, <<x>>) ELSE SignalGetValue(st, x)

\* a faulty peek that reads the value inside the active context (C22
\* depends on clearing it)
PeekInContext(st, x) ==
  LET r == Call("GetValue", st, <<x>>)
  IN [r EXCEPT !.obs.peeks = @ \cup {<<x, st.evalContext>>}]

\* Signal.peek; the observations record whether it returned what a read of
\* x yields from the signal values at that moment
Peek(st, x) ==
  LET prevContext == st.evalContext
      r == Call("GetValue", [st EXCEPT !.evalContext = Undef], <<x>>)
      v == PureRead(r, x, MaxPureDepth)
      good == IF v < 0 THEN r.err = v ELSE r.err = NoErr /\ r.ret = v
  IN [r EXCEPT !.evalContext = prevContext,
               !.obs.peeks = @ \cup {<<x, prevContext>>},
               !.obs.badPeeks = IF good \/ (x \in Computeds /\ ~TrackedOnly(r, x))
                                THEN @ ELSE @ \cup {x}]

\* a faulty subscribe whose effect calls fn inside its own context (C21
\* depends on clearing it)
subscribeCallInContext(st, t, x, acc) ==
  LET s == [st EXCEPT !.obs.told[t] = Append(@, acc)]
      r == IF x = Undef THEN s ELSE Call("GetValue", s, <<x>>)
  IN [r EXCEPT !.ret = 0]

\* Signal.subscribe: what its effect does with the value it read
subscribeCall(st, t, x, acc) ==
  LET prevContext == st.evalContext
      s == [st EXCEPT !.evalContext = Undef, !.obs.told[t] = Append(@, acc)]
      r == IF x = Undef THEN s ELSE Call("GetValue", s, <<x>>)
  IN [r EXCEPT !.evalContext = prevContext, !.ret = 0]

\* updateAttribute(v, el) of subscribeAttribute, on the element of binding t
updateAttribute(st, t, v) ==
  [st EXCEPT !.dom[t].attr = Str(v), !.obs.domOps[t] = @ + 1]

\* a faulty subscriber that returns when the element is gone and stays
\* subscribed (C26 depends on the call of unsubscribe)
DomCallbackStaysSubscribed(st, t, kind, x, acc) ==
  IF ~st.dom[t].alive THEN st
  ELSE IF kind = "domChild"
  THEN LET r == Call("GetValue", st, <<x>>)
       IN IF r.err # NoErr THEN r
          ELSE [r EXCEPT !.dom[t].text = Str(r.ret), !.obs.domOps[t] = @ + 1]
  ELSE LET u == updateAttribute(st, t, acc)
       IN IF kind = "domAttrValue" /\ u.dom[t].input
          THEN [u EXCEPT !.dom[t].listeners = @ + 1, !.obs.domOps[t] = @ + 1]
          ELSE u

\* the subscriber of renderAndSubscribe and of subscribeAttribute, called
\* with the value acc: with the element gone it calls unsubscribe(), a
\* variable that is not assigned yet while subscribe() has not returned;
\* otherwise it writes the text (values are neither elements nor arrays)
\* or the attribute, and for the key "value" of an input it adds a new
\* "input" listener (the removeEventListener before it is given a function
\* that was never added)
DomCallback(st, t, kind, x, acc) ==
  IF ~st.dom[t].alive
  THEN IF st.creating = t THEN Throw(st, OtherError)
       ELSE [Call("EffectDispose", st, <<t>>) EXCEPT
               !.obs.deferred = @ \cup {t},
               !.hist.deferred = @ \cup {t}]
  ELSE IF kind = "domChild"
  THEN LET r == Call("GetValue", st, <<x>>)
       IN IF r.err # NoErr THEN r
          ELSE [r EXCEPT !.dom[t].text = Str(r.ret), !.obs.domOps[t] = @ + 1]
  ELSE LET u == updateAttribute(st, t, acc)
       IN IF kind = "domAttrValue" /\ u.dom[t].input
          THEN [u EXCEPT !.dom[t].listeners = @ + 1, !.obs.domOps[t] = @ + 1]
          ELSE u

\* Signal.subscribe with such a subscriber
subscribeDomCall(st, t, kind, x, acc) ==
  LET prevContext == st.evalContext
      s == [st EXCEPT !.evalContext = Undef, !.obs.told[t] = Append(@, acc)]
      r == DomCallback(s, t, kind, x, acc)
  IN [r EXCEPT !.evalContext = prevContext, !.ret = 0]

\* a faulty untracked that leaves the evaluation context in place (C8
\* depends on clearing it)
untrackedKeepsContext(st, x) == Call("GetValue", st, <<x>>)

\* untracked(() => x.value)
untracked(st, x) ==
  LET prevContext == st.evalContext
      r == Call("GetValue", [st EXCEPT !.evalContext = Undef], <<x>>)
  IN [r EXCEPT !.evalContext = prevContext]

\* a faulty Computed._notify that propagates but leaves the computed's own
\* OUTDATED flag alone (C1 depends on the flag)
ComputedNotifyNotOutdated(st, c) ==
  IF "NOTIFIED" \notin st.flags[c]
  THEN Call("notifyLoop", [st EXCEPT !.flags[c] = @ \cup {"NOTIFIED"},
                             !.obs.notified = @ \cup {c}], <<st.targets[c]>>)
  ELSE st

\* a faulty Computed._notify that propagates on every call (C31 depends on
\* the test of NOTIFIED)
ComputedNotifyEveryCall(st, c) ==
  Call("notifyLoop", [st EXCEPT !.flags[c] = @ \cup {"OUTDATED", "NOTIFIED"},
                                !.obs.notified = @ \cup {c},
                                !.obs.notifySeq = Append(@, c)], <<st.targets[c]>>)

\* Computed._notify
ComputedNotify(st, c) ==
  IF "NOTIFIED" \notin st.flags[c]
  THEN Call("notifyLoop", [st EXCEPT !.flags[c] = @ \cup {"OUTDATED", "NOTIFIED"},
                             !.obs.notified = @ \cup {c},
                             !.obs.notifySeq = Append(@, c)], <<st.targets[c]>>)
  ELSE st

\* a faulty Effect._notify that runs the effect at once instead of queueing
\* it (C5 depends on the queue)
EffectNotifyEager(st, e) ==
  IF "NOTIFIED" \notin st.flags[e] /\ "RUNNING" \notin st.flags[e]
  THEN Caught(Call("EffectCallback", [st EXCEPT !.obs.notified = @ \cup {e}], <<e>>))
  ELSE st

\* the queue of effects from e along _nextBatchedEffect
RECURSIVE QueueFrom(_, _)
QueueFrom(nx, e) ==
  IF e = Undef THEN <<>> ELSE <<e>> \o QueueFrom(nx, nx[e])

\* a faulty Effect._notify that adds the effect at the end of the queue
\* (C24 depends on the insertion at the head)
EffectNotifyAtEnd(st, e) ==
  IF "NOTIFIED" \notin st.flags[e]
  THEN LET q == QueueFrom(st.nextBatchedEffect, st.batchedEffect)
           g == [st EXCEPT !.flags[e] = @ \cup {"NOTIFIED"},
                           !.obs.notified = @ \cup {e},
                           !.obs.notifySeq = Append(@, e),
                           !.hist.pending = Append(@, e)]
       IN IF q = <<>> THEN [g EXCEPT !.batchedEffect = e]
          ELSE [g EXCEPT !.nextBatchedEffect[q[Len(q)]] = e]
  ELSE st

\* Effect._notify
EffectNotify(st, e) ==
  IF "NOTIFIED" \notin st.flags[e]
  THEN [st EXCEPT !.flags[e] = @ \cup {"NOTIFIED"},
                  !.nextBatchedEffect[e] = st.batchedEffect,
                  !.batchedEffect = e,
                  !.obs.notified = @ \cup {e},
                  !.obs.notifySeq = Append(@, e),
                  !.hist.pending = Append(@, e)]
  ELSE st

\* node._target._notify(), dispatched on the class of the target
Notify(st, t) ==
  LET s == [st EXCEPT !.obs.notifyCalls[t] = @ + 1]
  IN IF t \in Computeds THEN ComputedNotify(s, t) ELSE EffectNotify(s, t)

\* a faulty loop that notifies the targets from the end of the list (C37
\* depends on the walk from the head)
notifyLoopFromTail(st, n) ==
  IF n = NoNode THEN st
  ELSE LET r == Call("notifyLoop", st, <<st.nodes[n].nextTarget>>)
       IN Call("Notify", r, <<NodeTarget(n)>>)

\* the loop `for (node = this._targets; ...) node._target._notify()`
notifyLoop(st, n) ==
  IF n = NoNode THEN st
  ELSE LET r == Call("Notify", st, <<NodeTarget(n)>>)
       IN Call("notifyLoop", r, <<r.nodes[n].nextTarget>>)

\* a faulty Signal.set value without the strict-equality test (C3 depends
\* on the test)
SetValueUnguarded(st, s, v) ==
  IF st.batchIteration > CycleLimit
  THEN Throw(st, CycleDetected)
  ELSE LET s1 == [st EXCEPT !.value[s] = v,
                            !.version[s] = @ + 1,
                            !.globalVersion = @ + 1,
                            !.obs.changed[s] = @ + 1]
           n  == Call("notifyLoop", startBatch(s1), <<s1.targets[s]>>)
       IN Rethrow(Call("endBatch", Caught(n), <<>>), n.err)

\* Signal.set value
SetValue(st, s, v) ==
  IF v # st.value[s]
  THEN IF st.batchIteration > CycleLimit
       THEN Throw([st EXCEPT !.obs.refused = @ \cup {<<s, st.batchIteration>>}],
                  CycleDetected)
       ELSE LET s1 == [st EXCEPT !.value[s] = v,
                                 !.version[s] = @ + 1,
                                 !.globalVersion = @ + 1,
                                 !.obs.changed[s] = @ + 1]
                n  == Call("notifyLoop", startBatch(s1), <<s1.targets[s]>>)
            IN Rethrow(Call("endBatch", Caught(n), <<>>), n.err)
  ELSE st

\* the first k effects of the queue from e along _nextBatchedEffect
RECURSIVE QueueUpTo(_, _, _)
QueueUpTo(nx, e, k) ==
  IF e = Undef \/ k = 0 THEN <<>> ELSE <<e>> \o QueueUpTo(nx, nx[e], k - 1)
\* the queue from e, cut after one effect more than there are
Queue(nx, e) == QueueUpTo(nx, e, Cardinality(Effects) + 1)
\* the queue q holds no effect twice
NoRepeat(q) == \A i, j \in 1..Len(q) : q[i] = q[j] => i = j
\* the effects linked from the module variable and from `rest`, the part
\* of the queue a drain still has to visit, are not those with NOTIFIED, or
\* one is linked twice
Misqueued(st, rest) ==
  LET q == Queue(st.nextBatchedEffect, rest) \o Queue(st.nextBatchedEffect, st.batchedEffect)
  IN \/ ~NoRepeat(q)
     \/ {q[i] : i \in 1..Len(q)} # {x \in Effects : "NOTIFIED" \in st.flags[x]}

\* a faulty inner loop that leaves NOTIFIED set on the effects it takes off
\* the queue (C32 depends on the clearing)
drainInnerKeepsNotified(st, effect, hasError, error) ==
  IF effect = Undef THEN <<st, hasError, error>>
  ELSE LET next == st.nextBatchedEffect[effect]
           s1   == [st EXCEPT !.nextBatchedEffect[effect] = Undef]
       IN IF "DISPOSED" \notin s1.flags[effect]
          THEN LET n == needsToRecompute(s1, effect)
               IN IF n.need
                  THEN LET r == Call("EffectCallback", n, <<effect>>)
                       IN IF r.err # NoErr
                          THEN Call("drainInner",
                                    [Caught(r) EXCEPT !.obs.errors = Append(@, r.err)],
                                    <<next, TRUE, IF hasError THEN error ELSE r.err>>)
                          ELSE Call("drainInner", r, <<next, hasError, error>>)
                  ELSE Call("drainInner", n, <<next, hasError, error>>)
          ELSE Call("drainInner", s1, <<next, hasError, error>>)

\* a faulty inner loop without the try/catch: the first effect that throws
\* ends the pass (C15 depends on the catch)
drainInnerStopsAtError(st, effect, hasError, error) ==
  IF effect = Undef THEN <<st, hasError, error>>
  ELSE LET next == st.nextBatchedEffect[effect]
           s1   == [st EXCEPT !.nextBatchedEffect[effect] = Undef,
                              !.flags[effect] = @ \ {"NOTIFIED"}]
       IN IF "DISPOSED" \notin s1.flags[effect]
          THEN LET n == needsToRecompute(s1, effect)
               IN IF n.need
                  THEN LET r == Call("EffectCallback", n, <<effect>>)
                       IN IF r.err # NoErr
                          THEN <<[Caught(r) EXCEPT !.obs.errors = Append(@, r.err)],
                                 TRUE, r.err>>
                          ELSE Call("drainInner", r, <<next, hasError, error>>)
                  ELSE Call("drainInner", n, <<next, hasError, error>>)
          ELSE Call("drainInner", s1, <<next, hasError, error>>)

\* the inner loop of endBatch: <<state, hasError, error>>
drainInner(st, effect, hasError, error) ==
  IF effect = Undef THEN <<st, hasError, error>>
  ELSE LET next == st.nextBatchedEffect[effect]
           s0   == [st EXCEPT !.nextBatchedEffect[effect] = Undef,
                              !.flags[effect] = @ \ {"NOTIFIED"}]
           s1   == IF Misqueued(s0, next) THEN [s0 EXCEPT !.obs.misqueued = TRUE]
                   ELSE s0
       IN IF "DISPOSED" \notin s1.flags[effect]
          THEN LET n == needsToRecompute(s1, effect)
               IN IF n.need
                  THEN LET r == Call("EffectCallback", n, <<effect>>)
                           o == IF r.evalContext # n.evalContext
                                   \/ r.batchDepth # n.batchDepth
                                THEN [r EXCEPT !.obs.unrestored = @ \cup {"rerun"}]
                                ELSE r
                       IN IF o.err # NoErr
                          THEN Call("drainInner",
                                    [Caught(o) EXCEPT !.obs.errors = Append(@, o.err)],
                                    <<next, TRUE, IF hasError THEN error ELSE o.err>>)
                          ELSE Call("drainInner", o, <<next, hasError, error>>)
                  ELSE Call("drainInner", n, <<next, hasError, error>>)
          ELSE Call("drainInner", s1, <<next, hasError, error>>)

\* one iteration of the outer loop of endBatch on d = <<state, hasError,
\* error>>; it does nothing once the queue is empty
drainStep(d) ==
  IF d[1].batchedEffect = Undef THEN d
  ELSE Call("drainInner", [d[1] EXCEPT !.batchedEffect = Undef,
                                       !.batchIteration = @ + 1,
                                       !.obs.passes = @ + 1,
                                       !.obs.drained = IF d[1].obs.passes = 0
                                                       THEN d[1].hist.pending ELSE @,
                                       !.hist.pending = <<>>],
            <<d[1].batchedEffect, d[2], d[3]>>)

\* up to k iterations of it, the first half before the second, so that the
\* evaluation does not nest once per iteration
RECURSIVE drainSteps(_, _)
drainSteps(d, k) ==
  IF k <= 1 THEN drainStep(d)
  ELSE LET h == drainSteps(d, k \div 2)
       IN IF h[1].batchedEffect = Undef THEN h
          ELSE drainSteps(h, k - (k \div 2))

\* the outer loop of endBatch, `while (batchedEffect !== undefined)`
RECURSIVE drainOuter(_)
drainOuter(d) ==
  IF d[1].batchedEffect = Undef THEN d
  ELSE drainOuter(drainSteps(d, CycleLimit))

\* a faulty endBatch that drains the queue at every depth (C4 depends on
\* the depth test)
endBatchAtAnyDepth(st) ==
  LET d == drainOuter(<<st, FALSE, NoErr>>)
      s == [d[1] EXCEPT !.batchIteration = 0, !.batchDepth = @ - 1]
  IN IF d[2] THEN Throw(s, d[3]) ELSE s

\* a faulty endBatch that leaves the iteration counter as the drain left it
\* (C12 depends on the reset)
endBatchKeepsIteration(st) ==
  IF st.batchDepth > 1 THEN [st EXCEPT !.batchDepth = @ - 1]
  ELSE LET d == drainOuter(<<st, FALSE, NoErr>>)
           s == [d[1] EXCEPT !.batchDepth = @ - 1]
       IN IF d[2] THEN Throw(s, d[3]) ELSE s

\* endBatch
endBatch(st) ==
  IF st.batchDepth > 1 THEN [st EXCEPT !.batchDepth = @ - 1]
  ELSE LET d == drainOuter(<<st, FALSE, NoErr>>)
           s == [d[1] EXCEPT !.batchIteration = 0, !.batchDepth = @ - 1]
       IN IF d[2] THEN Throw(s, d[3]) ELSE s

\* calling the cleanup function an effect callback returned
RunCleanup(st, e, kind) ==
  LET g == [st EXCEPT !.obs.cleaned[e] = @ + 1,
                      !.obs.miscleaned = IF st.hist.owed[e] THEN @
                                         ELSE @ \cup {<<e, "invoked again">>},
                      !.hist.owed[e] = FALSE]
  IN IF kind = CleanupThrow THEN Throw(g, UserError) ELSE g

\* a faulty cleanupEffect that rethrows what the cleanup function threw
\* without disposing the effect (C39 depends on the catch block)
cleanupEffectKeepsEffect(st, e) ==
  LET cl == st.cleanup[e]
      s1 == [st EXCEPT !.cleanup[e] = Undef]
  IN IF cl # Undef
     THEN LET s2 == startBatch(s1)
              prevContext == s2.evalContext
              r  == RunCleanup([s2 EXCEPT !.evalContext = Undef], e, cl)
              f  == Call("endBatch", [Caught(r) EXCEPT !.evalContext = prevContext], <<>>)
          IN Rethrow(f, r.err)
     ELSE s1

\* cleanupEffect
cleanupEffect(st, e) ==
  LET cl == st.cleanup[e]
      s1 == [st EXCEPT !.cleanup[e] = Undef]
  IN IF cl # Undef
     THEN LET s2 == startBatch(s1)
              prevContext == s2.evalContext
              r  == RunCleanup([s2 EXCEPT !.evalContext = Undef], e, cl)
              c  == IF r.err # NoErr
                    THEN LET d == Call("disposeEffect", [Caught(r) EXCEPT !.flags[e] =
                                       (@ \ {"RUNNING"}) \cup {"DISPOSED"}], <<e>>)
                         IN IF d.err # NoErr THEN d ELSE Throw(d, r.err)
                    ELSE r
              f  == Call("endBatch", [Caught(c) EXCEPT !.evalContext = prevContext], <<>>)
          IN Rethrow(f, c.err)
     ELSE s1

\* a faulty disposeEffect that leaves the effect's Nodes in the target
\* lists of its sources (C9 depends on unsubscribing them)
disposeEffectKeepsSubscriptions(st, e) ==
  Call("cleanupEffect", [st EXCEPT !.fn[e] = Undef, !.sources[e] = NoNode], <<e>>)

\* disposeEffect
disposeEffect(st, e) ==
  LET u == Call("UnsubscribeSources", st, <<st.sources[e]>>)
      g == CollectSources(u, u.sources[e])
  IN Call("cleanupEffect", [g EXCEPT !.fn[e] = Undef, !.sources[e] = NoNode], <<e>>)

\* a faulty endEffect that does not dispose the effect whose dispose() was
\* called during the run (C19 depends on the DISPOSED test of the finalizer)
endEffectWithoutDispose(st, e, prevContext) ==
  IF st.evalContext # e THEN Throw(st, OutOfOrder)
  ELSE LET c == Call("cleanupSources", st, <<e>>)
           s == [c EXCEPT !.evalContext = prevContext,
                          !.flags[e] = @ \ {"RUNNING"}]
       IN Call("endBatch", s, <<>>)

\* a faulty endEffect that does not reconcile the source list (C23 depends
\* on dropping the sources the run did not read)
endEffectKeepsSources(st, e, prevContext) ==
  IF st.evalContext # e THEN Throw(st, OutOfOrder)
  ELSE LET s == [st EXCEPT !.evalContext = prevContext,
                           !.flags[e] = @ \ {"RUNNING"}]
           d == IF "DISPOSED" \in s.flags[e] THEN Call("disposeEffect", s, <<e>>) ELSE s
       IN IF d.err # NoErr THEN d ELSE Call("endBatch", d, <<>>)

\* endEffect, bound to effect e and prevContext
endEffect(st, e, prevContext) ==
  IF st.evalContext # e
  THEN Throw([st EXCEPT !.obs.outOfOrder = @ \cup {e}], OutOfOrder)
  ELSE LET c == Call("cleanupSources", [st EXCEPT !.obs.finalized = @ + 1], <<e>>)
           s == [c EXCEPT !.evalContext = prevContext,
                          !.flags[e] = @ \ {"RUNNING"}]
           d == IF "DISPOSED" \in s.flags[e] THEN Call("disposeEffect", s, <<e>>) ELSE s
       IN IF d.err # NoErr THEN d ELSE Call("endBatch", d, <<>>)

\* a faulty _start that does not call cleanupEffect (C18 depends on the
\* call before every run)
EffectStartWithoutCleanup(st, e) ==
  IF "RUNNING" \in st.flags[e] THEN Throw(st, CycleDetected)
  ELSE LET s1 == [st EXCEPT !.flags[e] = (@ \cup {"RUNNING"}) \ {"DISPOSED"}]
           b  == startBatch(Call("prepareSources", s1, <<e>>))
       IN [b EXCEPT !.fin = b.evalContext, !.evalContext = e]

\* a faulty _start that does not open a batch (C35 depends on the depth
\* that keeps the queue from being drained inside a run)
EffectStartWithoutBatch(st, e) ==
  IF "RUNNING" \in st.flags[e] THEN Throw(st, CycleDetected)
  ELSE LET s1 == [st EXCEPT !.flags[e] = (@ \cup {"RUNNING"}) \ {"DISPOSED"}]
           c  == Call("cleanupEffect", s1, <<e>>)
       IN IF c.err # NoErr THEN c
          ELSE LET b == Call("prepareSources", c, <<e>>)
               IN [b EXCEPT !.fin = b.evalContext, !.evalContext = e]

\* Effect._start: the context bound into the returned finalizer is st.fin
EffectStart(st, e) ==
  IF "RUNNING" \in st.flags[e]
  THEN Throw([st EXCEPT !.obs.guarded = @ \cup {e}], CycleDetected)
  ELSE LET s1 == [st EXCEPT !.flags[e] = (@ \cup {"RUNNING"}) \ {"DISPOSED"}]
           c  == Call("cleanupEffect", s1, <<e>>)
       IN IF c.err # NoErr
          THEN [c EXCEPT !.obs.startFailed = @ \cup {e},
                         !.obs.startUnrestored =
                            IF c.evalContext # st.evalContext
                               \/ c.batchDepth # st.batchDepth
                            THEN @ \cup {e} ELSE @]
          ELSE LET b == startBatch(Call("prepareSources", c, <<e>>))
               IN [b EXCEPT !.fin = b.evalContext, !.evalContext = e]

\* a faulty _callback that disposes the effect when its callback throws
\* (C38 depends on the effect staying subscribed)
EffectCallbackDisposesOnThrow(st, e) ==
  LET s == Call("EffectStart", st, <<e>>)
  IN IF s.err # NoErr THEN s
     ELSE LET prevContext == s.fin
              body == IF "DISPOSED" \in s.flags[e] THEN s
                      ELSE IF s.fn[e] = Undef THEN s
                      ELSE LET r == Call("RunFn", s, <<e>>)
                           IN IF r.err = NoErr
                                 /\ FnCleanup(s.fn[e], r.ret) # NoCleanup
                              THEN [r EXCEPT !.cleanup[e] = FnCleanup(s.fn[e], r.ret),
                                             !.hist.owed[e] = TRUE]
                              ELSE r
              f == Call("endEffect", Caught(body), <<e, prevContext>>)
          IN IF body.err # NoErr /\ f.err = NoErr
             THEN Throw(Call("EffectDispose", f, <<e>>), body.err)
             ELSE Rethrow(f, body.err)

\* Effect._callback
EffectCallback(st, e) ==
  LET s == Call("EffectStart", st, <<e>>)
  IN IF s.err # NoErr THEN s
     ELSE LET prevContext == s.fin
              body == IF "DISPOSED" \in s.flags[e] THEN s
                      ELSE IF s.fn[e] = Undef THEN s
                      ELSE LET r == Call("RunFn", s, <<e>>)
                           IN IF r.err = NoErr
                                 /\ FnCleanup(s.fn[e], r.ret) # NoCleanup
                              THEN [r EXCEPT !.cleanup[e] = FnCleanup(s.fn[e], r.ret),
                                             !.obs.miscleaned =
                                                IF r.hist.owed[e]
                                                THEN @ \cup {<<e, "dropped">>}
                                                ELSE @,
                                             !.hist.owed[e] = TRUE]
                              ELSE r
          IN Rethrow(Call("endEffect", Caught(body), <<e, prevContext>>), body.err)

\* a faulty _dispose that refuses an effect that has no callback any more
\* (C20 depends on dispose() accepting a disposed effect)
EffectDisposeOnce(st, e) ==
  LET s == [st EXCEPT !.flags[e] = @ \cup {"DISPOSED"}]
  IN IF st.fn[e] = Undef THEN Throw(st, OutOfOrder)
     ELSE IF "RUNNING" \notin s.flags[e] THEN Call("disposeEffect", s, <<e>>) ELSE s

\* Effect._dispose
EffectDispose(st, e) ==
  LET s == [st EXCEPT !.flags[e] = @ \cup {"DISPOSED"}]
  IN IF "RUNNING" \notin s.flags[e] THEN Call("disposeEffect", s, <<e>>) ELSE s

\* a faulty effect(fn) that does not dispose the effect when its first run
\* throws (C17 depends on the catch block)
effectKeepsFailed(st, e, p) ==
  LET s0 == [st EXCEPT !.fn[e] = p, !.cleanup[e] = Undef,
                       !.sources[e] = NoNode,
                       !.nextBatchedEffect[e] = Undef,
                       !.flags[e] = {"TRACKING"}]
  IN Call("EffectCallback", [s0 EXCEPT !.creating = e], <<e>>)

\* effect(fn): new Effect(fn), its first run, and the disposal if that throws
effect(st, e, p) ==
  LET s0 == [st EXCEPT !.fn[e] = p, !.cleanup[e] = Undef,
                       !.sources[e] = NoNode,
                       !.nextBatchedEffect[e] = Undef,
                       !.flags[e] = {"TRACKING"}]
      r  == Call("EffectCallback", [s0 EXCEPT !.creating = e], <<e>>)
  IN IF r.err # NoErr
     THEN LET d == Call("EffectDispose", Caught(r), <<e>>)
          IN IF d.err # NoErr THEN d ELSE Throw(d, r.err)
     ELSE r

----------------------------------------------------------------------------
(* Running a callback *)

\* one instruction of the callback of target t; a value read is st.ret
Instr(st, t, ins, acc) ==
  CASE ins.op = "read"      -> Call("GetValue", st, <<ins.x>>)
    [] ins.op = "untracked" -> untracked(st, ins.x)
    [] ins.op = "peek"      -> Peek(st, ins.x)
    [] ins.op = "readIf"    -> IF acc > 0 THEN Call("GetValue", st, <<ins.x>>)
                               ELSE [st EXCEPT !.ret = 0]
    [] ins.op = "write"     -> [Call("SetValue", st, <<ins.x, ins.v>>) EXCEPT !.ret = 0]
    [] ins.op = "writeNot"  -> [Call("SetValue", st, <<ins.x, IF acc > 0 THEN 0 ELSE 1>>)
                                  EXCEPT !.ret = 0]
    [] ins.op = "subFn"     -> subscribeCall(st, t, ins.x, acc)
    [] ins.op \in {"domChild", "domAttr", "domAttrValue"}
                            -> subscribeDomCall(st, t, ins.op, ins.x, acc)
    [] ins.op = "effect"    -> IF "TRACKING" \in st.flags[ins.x]
                               THEN [st EXCEPT !.ret = 0]
                               ELSE [Call("effect", st, <<ins.x, ins.p>>) EXCEPT
                                       !.creating = st.creating, !.ret = 0]
    [] ins.op = "positive"  -> [st EXCEPT !.ret = (IF acc > 0 THEN 1 ELSE 0) - acc]
    [] ins.op = "throwIf"   -> IF acc > 0 THEN Throw(st, UserError)
                               ELSE [st EXCEPT !.ret = 0]
    [] ins.op = "throwIf2"  -> IF acc > 0 THEN Throw(st, OtherError)
                               ELSE [st EXCEPT !.ret = 0]
    [] ins.op = "disposeIf" -> IF acc > 0 /\ st.creating # t
                               THEN [Call("EffectDispose", st, <<t>>) EXCEPT
                                       !.ret = 0,
                                       !.obs.deferred = @ \cup {t},
                                       !.hist.deferred = @ \cup {t}]
                               ELSE [st EXCEPT !.ret = 0]

\* the callback from instruction i on; the observations record what it read
\* through a tracked read and whether each call restored the process state
Exec(st, t, body, i, acc) ==
  IF i > Len(body) THEN [st EXCEPT !.ret = acc]
  ELSE LET ins == body[i]
           r   == Call("Instr", st, <<t, ins, acc>>)
           tracked == ins.op = "read" \/ (ins.op = "readIf" /\ acc > 0)
           o0  == IF tracked /\ Pos(r.hist.readSeq[t], ins.x) = 0
                  THEN [r EXCEPT !.hist.readSeq[t] = Append(@, ins.x)]
                  ELSE r
           o1  == IF tracked /\ t \in Effects
                  THEN [o0 EXCEPT !.hist.seen[t][ins.x] =
                                    IF r.err # NoErr THEN r.err ELSE r.ret,
                                 !.hist.everRead[t] = @ \cup {ins.x}]
                  ELSE o0
           o2  == IF o1.evalContext # st.evalContext
                     \/ o1.batchDepth # st.batchDepth
                  THEN [o1 EXCEPT !.obs.unrestored = @ \cup {ins.op}]
                  ELSE o1
       IN IF o2.err # NoErr THEN o2
          ELSE Call("Exec", o2, <<t, body, i + 1, acc + o2.ret>>)

\* this._fn()
RunFn(st, t) ==
  LET s == IF t \in Computeds
           THEN [st EXCEPT !.obs.calls[t] = @ + 1,
                           !.hist.readSeq[t] = <<>>]
           ELSE [st EXCEPT !.obs.runs[t] = @ + 1,
                           !.obs.active = @ \cup {t},
                           !.obs.reentered = IF t \in st.obs.active
                                             THEN @ \cup {t} ELSE @,
                           !.obs.unbatched = IF st.batchDepth < 1
                                             THEN @ \cup {t} ELSE @,
                           !.hist.readSeq[t] = <<>>,
                           !.obs.runSeq = IF st.obs.passes <= 1 THEN Append(@, t) ELSE @,
                           !.obs.miscleaned = IF st.hist.owed[t]
                                              THEN @ \cup {<<t, "not invoked before the run">>}
                                              ELSE @,
                           !.hist.seen[t] = [x \in Sources |-> NotRead]]
      x == Call("Exec", s, <<t, FnBody(s.fn[t]), 1, 0>>)
      r == [x EXCEPT !.obs.active = st.obs.active]
  IN IF r.err # NoErr THEN [r EXCEPT !.obs.threw = @ \cup {<<t, r.err>>},
                                     !.hist.threwLast = @ \cup {t}]
     ELSE [r EXCEPT !.obs.returned = @ \cup {t},
                    !.hist.threwLast = @ \ {t}]

\* the call f(a...) in state st
Call(f, st, a) ==
  CASE f = "Subscribe"        -> Subscribe(st, a[1], a[2])
    [] f = "SubscribeSources" -> SubscribeSources(st, a[1])
    [] f = "Unsubscribe"      -> Unsubscribe(st, a[1], a[2])
    [] f = "UnsubscribeSources" -> UnsubscribeSources(st, a[1])
    [] f = "addDependency"    -> addDependency(st, a[1])
    [] f = "prepareSources"   -> prepareSources(st, a[1])
    [] f = "cleanupSources"   -> cleanupSources(st, a[1])
    [] f = "ComputedRefresh"  -> ComputedRefresh(st, a[1])
    [] f = "Refresh"          -> Refresh(st, a[1])
    [] f = "needsLoop"        -> needsLoop(st, a[1])
    [] f = "recompute"        -> recompute(st, a[1])
    [] f = "ComputedGetValue" -> ComputedGetValue(st, a[1])
    [] f = "GetValue"         -> GetValue(st, a[1])
    [] f = "Exec"             -> Exec(st, a[1], a[2], a[3], a[4])
    [] f = "RunFn"            -> RunFn(st, a[1])
    [] f = "Instr"            -> Instr(st, a[1], a[2], a[3])
    [] f = "notifyLoop"       -> notifyLoop(st, a[1])
    [] f = "Notify"           -> Notify(st, a[1])
    [] f = "SetValue"         -> SetValue(st, a[1], a[2])
    [] f = "endBatch"         -> endBatch(st)
    [] f = "drainInner"       -> drainInner(st, a[1], a[2], a[3])
    [] f = "cleanupEffect"    -> cleanupEffect(st, a[1])
    [] f = "disposeEffect"    -> disposeEffect(st, a[1])
    [] f = "endEffect"        -> endEffect(st, a[1], a[2])
    [] f = "EffectStart"      -> EffectStart(st, a[1])
    [] f = "EffectCallback"   -> EffectCallback(st, a[1])
    [] f = "EffectDispose"    -> EffectDispose(st, a[1])
    [] f = "effect"           -> effect(st, a[1], a[2])

----------------------------------------------------------------------------
(* The top-level program: public operations, one per step *)

Op(name, x, v) == [op |-> name, x |-> x, v |-> v]

\* the engine as the module is loaded, with computeds c and d constructed
\* over callbacks fc and fd, the effect callbacks fns to choose from, and
\* top-level writes allowed while globalVersion is below limit, and
\* batch(...) calls nested up to nest deep
InitProgram(fc, fd, fns, writes, reads, limit, binds, nest) ==
  /\ value = [x \in Sources |-> IF x \in Signals THEN 0 ELSE Undefined]
  /\ version = [x \in Sources |-> 0]
  /\ node = [x \in Sources |-> NoNode]
  /\ targets = [x \in Sources |-> NoNode]
  /\ sources = [t \in Targets |-> NoNode]
  /\ flags = [t \in Targets |-> IF t \in Computeds THEN {"OUTDATED"} ELSE {}]
  /\ fn = [t \in Targets |-> IF t = "c" THEN fc ELSE IF t = "d" THEN fd ELSE Undef]
  /\ cGlobalVersion = [c \in Computeds |-> -1]
  /\ cleanup = [e \in Effects |-> Undef]
  /\ nextBatchedEffect = [e \in Effects |-> Undef]
  /\ nodes = [n \in NodeIds |-> BlankNode]
  /\ evalContext = Undef
  /\ batchedEffect = Undef
  /\ batchDepth = 0
  /\ batchIteration = 0
  /\ globalVersion = 0
  /\ userBatch = <<>>
  /\ lastOp = Op("init", Undef, 0)
  /\ thrown = NoErr
  /\ result = Undefined
  /\ menu = [fns |-> fns, writes |-> writes, reads |-> reads, limit |-> limit,
             binds |-> binds, nest |-> nest]
  /\ dom = [e \in Effects |-> NewElement]
  /\ obs = NewObs
  /\ hist = NewHist
  /\ list = NoList

\* the same for a program that does not nest batches
InitFull(fc, fd, fns, writes, reads, limit, binds) ==
  InitProgram(fc, fd, fns, writes, reads, limit, binds, MaxNestShallow)

\* the same for a program that binds no element
NoBinds == [e \in Effects |-> {}]
InitLimited(fc, fd, fns, writes, reads, limit) ==
  InitFull(fc, fd, fns, writes, reads, limit, NoBinds)

InitWith(fc, fd, fns, writes, reads) ==
  InitLimited(fc, fd, fns, writes, reads, MaxWrites)

\* an effect object exists once its constructor ran
Created(e) == "TRACKING" \in flags[e]

\* s.value = v
Write(s, v) ==
  /\ v \in menu.writes[s]
  /\ globalVersion < menu.limit
  /\ Install(Call("SetValue", State, <<s, v>>))
  /\ lastOp' = Op("write", s, v)
  /\ UNCHANGED <<userBatch, menu>>

\* x.value
Read(x) ==
  /\ x \in menu.reads
  /\ Install(Call("GetValue", State, <<x>>))
  /\ lastOp' = Op("read", x, 0)
  /\ UNCHANGED <<userBatch, menu>>

\* entering batch(fn): fn is the steps up to the matching BatchEnd
BatchBegin ==
  /\ Len(userBatch) < menu.nest
  /\ LET opens == batchDepth = 0
         s == IF opens THEN startBatch(State) ELSE State
     IN /\ Install(s)
        /\ userBatch' = Append(userBatch, opens)
  /\ lastOp' = Op("batchBegin", Undef, 0)
  /\ UNCHANGED menu

\* fn returns: the batch that called startBatch calls endBatch
BatchEnd ==
  /\ userBatch # <<>>
  /\ Install(IF userBatch[Len(userBatch)] THEN Call("endBatch", State, <<>>) ELSE State)
  /\ userBatch' = SubSeq(userBatch, 1, Len(userBatch) - 1)
  /\ lastOp' = Op("batchEnd", Undef, 0)
  /\ UNCHANGED menu

\* fn throws: the batch that called startBatch calls endBatch in its finally
\* block, and an exception of endBatch replaces the one fn threw; lastOp.v
\* is 1 for the batch that called startBatch
BatchThrow ==
  /\ userBatch # <<>>
  /\ LET opened == userBatch[Len(userBatch)]
         t == Throw(State, BatchError)
     IN /\ Install(IF opened
                   THEN Rethrow(Call("endBatch", Caught(t), <<>>), t.err)
                   ELSE t)
        /\ lastOp' = Op("batchThrow", Undef, IF opened THEN 1 ELSE 0)
  /\ userBatch' = SubSeq(userBatch, 1, Len(userBatch) - 1)
  /\ UNCHANGED menu

\* effect(p)
CreateEffect(e, p) ==
  /\ ~Created(e)
  /\ p \in menu.fns[e]
  /\ LET r == Call("effect", State, <<e, p>>)
     IN Install(IF \E x \in {UserError, OtherError} : <<e, x>> \in r.obs.threw
                THEN [r EXCEPT !.hist.failed = @ \cup {e}]
                ELSE r)
  /\ lastOp' = Op("effect", e, 0)
  /\ UNCHANGED <<userBatch, menu>>

\* calling the disposer effect(...) returned; lastOp.v is 1 when the effect
\* was disposed already
Dispose(e) ==
  /\ Created(e)
  \* a DOM binding keeps the function that subscribe() returned to itself
  /\ dom[e].bound = Undef
  /\ Install([Call("EffectDispose", State, <<e>>) EXCEPT !.hist.disposed = @ \cup {e}])
  /\ lastOp' = Op("dispose", e, IF fn[e] = Undef THEN 1 ELSE 0)
  /\ UNCHANGED <<userBatch, menu>>

\* createDomElement(tag, details, children) with the signal a given as
\* the only child ("child") or as the value of the key k of details, and
\* SignalToElement.subscribeAttribute(input, "value", a) called directly
\* ("subscribeValue"); the element of the keys is an <input>
PropertyKeys == {"className", "value"}
Bind(e, k) ==
  /\ k \in menu.binds[e]
  /\ ~Created(e) /\ dom[e].bound = Undef
  /\ LET s0 == [State EXCEPT !.dom[e] = [NewElement EXCEPT !.bound = k,
                                                            !.input = (k # "child")]]
         \* element.className = details.className, element[KEY] = value:
         \* the signal is converted by toString(), this.value + ""
         r1 == Call("GetValue", s0, <<"a">>)
         static == [r1 EXCEPT !.dom[e].prop = Str(r1.ret), !.obs.domOps[e] = @ + 1]
         \* subscribeAttribute: updateAttribute(signal.value, element)
         r2 == Call("GetValue", s0, <<"a">>)
         first == updateAttribute(r2, e, r2.ret)
     IN Install(CASE k = "child" -> Call("effect", s0, <<e, "domChild">>)
                  [] k \in PropertyKeys -> static
                  [] k = "subscribeValue" -> Call("effect", first, <<e, "domAttrValue">>)
                  [] OTHER -> Call("effect", first, <<e, "domAttr">>))
  /\ lastOp' = Op("bind", e, 0)
  /\ UNCHANGED <<userBatch, menu>>

\* the element of the binding is garbage-collected: its WeakRef no longer
\* resolves
CollectElement(e) ==
  /\ dom[e].bound # Undef /\ dom[e].alive
  /\ Install([State EXCEPT !.dom[e].alive = FALSE])
  /\ lastOp' = Op("collect", e, 0)
  /\ UNCHANGED <<userBatch, menu>>

\* the "input" listeners of the element, k of them, called with the typed
\* value; an exception of a listener is reported and the next one is called
RECURSIVE inputListeners(_, _, _, _)
inputListeners(st, e, v, k) ==
  IF k = 0 THEN st
  ELSE LET u == updateAttribute(st, e, Str(v))
           w == Caught(Call("SetValue", u, <<"a", Str(v)>>))
       IN inputListeners(w, e, v, k - 1)

\* the user types v into the <input>: its value changes and an "input"
\* event is dispatched to the listeners it has at that moment
Input(e, v) ==
  /\ dom[e].bound # Undef /\ dom[e].alive /\ dom[e].input
  /\ globalVersion < menu.limit
  /\ Install(inputListeners([State EXCEPT !.dom[e].typed = Str(v),
                                          !.dom[e].prop = Str(v)],
                            e, v, dom[e].listeners))
  /\ lastOp' = Op("input", e, v)
  /\ UNCHANGED <<userBatch, menu>>

Next ==
  \/ \E s \in Signals, v \in Values : Write(s, v)
  \/ \E x \in Sources : Read(x)
  \/ BatchBegin
  \/ BatchEnd
  \/ BatchThrow
  \/ \E e \in Effects : \E p \in menu.fns[e] : CreateEffect(e, p)
  \/ \E e \in Effects : Dispose(e)

\* signal a takes every value, signal b one value fewer
WritesAB == [s \in Signals |-> IF s = "a" THEN Values ELSE 0..(MaxVal - 1)]
WritesA  == [s \in Signals |-> IF s = "a" THEN Values ELSE {}]
Fns(pe, pf) == [e \in Effects |-> IF e = "e" THEN pe ELSE pf]

\* a chain: c = a, d = c + b; an effect on d and an effect on a, in
\* batches nested two deep
Init ==
  InitProgram("cA", "cCB", Fns({"eD"}, {"eA"}), WritesAB, {"c"}, MaxWrites,
              NoBinds, MaxNest)
Spec == Init /\ [][Next]_vars

\* a computed whose sources vary: c = a > 0 ? a + b : 0, d = c + b
InitDynamic == InitWith("cAifB", "cCB", Fns({"eD"}, {"eC"}), WritesAB, {"c", "d"})
SpecDynamic == InitDynamic /\ [][Next]_vars

\* the same with an effect that writes a signal while the queue is drained
InitWriter == InitWith("cA", "cCB", Fns({"eBwrA"}, {"eA"}), WritesAB, {"c"})
SpecWriter == InitWriter /\ [][Next]_vars

\* the diamond: c = a, d = a, effects on c and d
InitDiamond == InitWith("cA", "cA", Fns({"eCD"}, {"eCD"}), WritesA, {"c", "d"})
SpecDiamond == InitDiamond /\ [][Next]_vars

\* untracked reads, also of a computed that throws
InitUntracked ==
  InitWith("cAutB", "cAthrow", Fns({"eAutB", "eC"}, {"eButD"}), WritesAB, {"c"})
SpecUntracked == InitUntracked /\ [][Next]_vars

\* an effect that on every run writes a different value to the signal it
\* reads, next to an ordinary effect
InitRunaway ==
  InitLimited("cA", "cCB", Fns({"eAflip"}, {"eA"}), WritesAB, {"c"}, MaxWritesShort)
SpecRunaway == InitRunaway /\ [][Next]_vars

\* an effect that disposes itself during a run and returns a cleanup
\* function that throws, next to an ordinary effect
InitDisposing == InitWith("cA", "cCB", Fns({"eAdispIf"}, {"eA", "eAthrow"}), WritesAB, {"c"})
SpecDisposing == InitDisposing /\ [][Next]_vars

\* computeds that read themselves: either c = c (and d = c + b), or
\* c = a + d and d = c
InitCycle ==
  \/ InitWith("cC", "cCB", Fns({"eC"}, {"eA"}), WritesAB, {"c", "d"})
  \/ InitWith("cAD", "cC", Fns({"eC"}, {"eA"}), WritesAB, {"c", "d"})
SpecCycle == InitCycle /\ [][Next]_vars

\* a computed whose callback throws while a is positive: c throws, d = c + b,
\* an effect on d and an effect on a
InitThrowing == InitWith("cAthrow", "cCB", Fns({"eD"}, {"eA"}), WritesAB, {"c", "d"})
SpecThrowing == InitThrowing /\ [][Next]_vars

\* effects that throw while a is positive, an effect that writes a while the
\* queue is drained, and an effect that throws another error
InitFailing ==
  InitWith("cA", "cCB", Fns({"eAthrow"}, {"eBwrA", "eAthrow2"}), WritesAB, {"c"})
SpecFailing == InitFailing /\ [][Next]_vars

\* effects that return cleanup functions: on every run, on some runs, one
\* that throws, and an effect that disposes itself during a run
InitCleanup ==
  InitWith("cA", "cCB", Fns({"eAcl", "eAclIf", "eAdispIf"}, {"eAclThrow", "eA"}),
           WritesAB, {"c"})
SpecCleanup == InitCleanup /\ [][Next]_vars

\* effects that call their own dispose() during a run, one of them reading
\* another signal after the call, next to an effect that writes a while the
\* queue is drained
InitDeferred ==
  InitWith("cA", "cCB", Fns({"eAdispB", "eAdispIf"}, {"eBwrA"}),
           WritesAB, {"c"})
SpecDeferred == InitDeferred /\ [][Next]_vars

\* subscriptions to a signal and to a computed, whose fn reads b, next to
\* an effect on b
InitSubscribe ==
  InitWith("cA", "cCB", Fns({"sA", "sAfnB"}, {"sCfnB", "eB"}), WritesAB, {"c"})
SpecSubscribe == InitSubscribe /\ [][Next]_vars

\* c = a.peek() + b and d = a; effects that peek a signal or a computed
\* and read b, next to effects on c and on a
InitPeek ==
  InitWith("cPkAB", "cA", Fns({"ePkAB", "ePkDB"}, {"eC", "eA"}), WritesAB, {"c"})
SpecPeek == InitPeek /\ [][Next]_vars

\* an effect that reads b only while a is positive, an effect that reads
\* no value, and an effect on b
InitLatestRun ==
  InitLimited("cA", "cCB", Fns({"eAifB"}, {"eNone", "eB"}), WritesAB, {"c"}, MaxWritesLong)
SpecLatestRun == InitLatestRun /\ [][Next]_vars

\* an effect on a, next to an effect on a, on b or on d = c + b, c = a,
\* created in either order; no effect writes, so that every drain is one
\* pass
InitOrder ==
  InitWith("cA", "cCB", Fns({"eA"}, {"eA", "eB", "eD"}), WritesAB, {"c"})
SpecOrder == InitOrder /\ [][Next]_vars

\* JavaScript values that are not keys: null, false, and the absence of a
\* property or an attribute (undefined is Undef)
JsNull  == "<null>"
JsFalse == "<false>"
Absent  == "<absent>"
\* the data-key values the program supplies, and those RNG(10) returns
SuppliedKeys == {"k1", "k2"}
RandomKeys   == {"r1", "r2", "r3"}
\* arrays of at most MaxItems items
MaxItems == 2
\* the Error("found non HTMLElement ...") of map()
NotAnElement == -7
\* what the callback returned instead of an element
NoElement == [attr |-> JsNull, prop |-> JsNull]

\* a ?? b
Nullish(v) == v \in {JsNull, Undef}
Coalesce(a, b) == IF Nullish(a) THEN b ELSE a
\* element.getAttribute("data-key"), element["data-key"]
getAttribute(el) == IF el.attr = Absent THEN JsNull ELSE el.attr
getProperty(el)  == IF el.prop = Absent THEN Undef ELSE el.prop
\* the string setAttribute() stores for a value
String(v) ==
  IF v = JsFalse THEN "false"
  ELSE IF v = JsNull THEN "null"
  ELSE v

\* getDataKey: of a Signal the data-key of its value, of an Element its
\* attribute, of anything else
\* i instanceof Object && i && "data-key" in i && i["data-key"]
getDataKey(i) ==
  IF i.kind = "signal" THEN (IF i.key = Absent THEN Undef ELSE i.key)
  ELSE IF i.kind = "element" THEN (IF i.key = Absent THEN JsNull ELSE i.key)
  ELSE IF i.key = Absent THEN JsFalse ELSE i.key

\* the body of the callback of newSignal.value.map for one item: the key
\* it gives the element the callback returned, where rng is what RNG(10)
\* returns if it is called
dataKeyOf(objOrSignal, item, rng) ==
  LET dataKey == Coalesce(Coalesce(getAttribute(item), getDataKey(objOrSignal)),
                          getProperty(item))
  IN Coalesce(dataKey, rng)

\* handleMapFn: items is newSignal.value, returned[i] the element the
\* callback returns for items[i], and rnd[i] what RNG(10) returns for it
handleMapFn(items, returned, rnd) ==
  IF \E i \in 1..Len(items) : returned[i] = NoElement
  THEN [err |-> NotAnElement, elements |-> <<>>]
  ELSE [err |-> NoErr,
        elements |-> [i \in 1..Len(items) |->
                        [returned[i] EXCEPT !.attr =
                           String(dataKeyOf(items[i], returned[i], rnd[i]))]]]

\* the items of the array: plain objects, Signals and Elements, without a
\* data-key, with a data-key that is undefined, or with a key
Items ==
  {i \in [kind : {"object", "signal", "element"},
          key  : {Absent, Undef} \cup SuppliedKeys] :
     i.kind = "element" => i.key # Undef}
\* what the callback returns: no element, or an element with or without
\* the attribute and the property
Returned ==
  {NoElement} \cup [attr : {Absent, "k1"}, prop : {Absent, "k2"}]
\* RNG(10) returns a fresh key on every call
Fresh == {r \in [1..MaxItems -> RandomKeys] :
            \A i, j \in 1..MaxItems : i # j => r[i] # r[j]}
Arrays(S) == UNION {[1..n -> S] : n \in 0..MaxItems}

\* newSignal.value = items, at top level, for a signal no target reads
SetItems(items) ==
  /\ list' = [NoList EXCEPT !.items = items]
  /\ lastOp' = Op("items", Undef, Len(items))
  /\ thrown' = NoErr
  /\ result' = Undefined
  /\ UNCHANGED <<engine, userBatch, menu, dom, obs, hist>>

\* SignalsToDoms(newSignal).map(cb), at top level
MapItems(returned, rnd) ==
  /\ Len(returned) = Len(list.items)
  /\ LET r == handleMapFn(list.items, returned, rnd)
     IN /\ list' = [list EXCEPT !.returned = returned, !.elements = r.elements]
        /\ thrown' = r.err
  /\ lastOp' = Op("map", Undef, Len(returned))
  /\ result' = Undefined
  /\ UNCHANGED <<engine, userBatch, menu, dom, obs, hist>>

NextList ==
  \/ \E items \in Arrays(Items) : SetItems(items)
  \/ \E returned \in Arrays(Returned), rnd \in Fresh : MapItems(returned, rnd)

\* an array of items given to SignalsToDoms and mapped to elements
InitList == InitWith("cA", "cCB", Fns({"eA"}, {"eA"}), WritesA, {"c"})
SpecList == InitList /\ [][NextList]_vars

\* what the user types
TypedValues == {2}
\* a computed that yields the same value for different values of its
\* source, a computed that throws the same error for them, and effects on
\* each and on the signal
InitCutoff ==
  InitWith("cApos", "cAthrow", Fns({"eC"}, {"eD", "eA"}), WritesA, {"c"})
SpecCutoff == InitCutoff /\ [][Next]_vars

\* a computed whose sources vary and a computed that throws, read by the
\* program, with an effect on the first and an effect on the signal b
InitMemo ==
  InitWith("cAifB", "cAthrow", Fns({"eC"}, {"eB"}), WritesAB, {"c", "d"})
SpecMemo == InitMemo /\ [][Next]_vars

\* a computed notified along two paths: d = a, c = a + d, an effect on c
\* and an effect on c and d or on a
InitTwoPaths ==
  InitWith("cAD", "cA", Fns({"eC"}, {"eCD", "eA"}), WritesA, {"c"})
SpecTwoPaths == InitTwoPaths /\ [][Next]_vars

\* callbacks that read different sources from one evaluation to the next,
\* by a condition or by throwing half-way, and computeds evaluated inside
\* an evaluation that read the same signals
InitSources ==
  InitWith("cAifB", "cCB", Fns({"eAthrowB"}, {"eCD"}), WritesAB, {"d"})
SpecSources == InitSources /\ [][Next]_vars

\* an effect that writes 0 to the signal it reads, next to an effect on
\* that signal or an effect that writes it from another signal
InitReenter ==
  InitWith("cA", "cCB", Fns({"eAzero"}, {"eA", "eBwrA"}), WritesAB, {"c"})
SpecReenter == InitReenter /\ [][Next]_vars

\* effects that create another effect during their run, next to untracked
\* reads, peeks, computeds that throw, cleanup functions that throw
InitNested ==
  InitWith("cAutB", "cAthrow", Fns({"eAmkF", "eDmkF"}, {"eAclThrow"}), WritesAB, {"c"})
SpecNested == InitNested /\ [][Next]_vars

\* two effects on a, one of which also reads the computed c = a once a is
\* positive
InitOrderMixed ==
  InitWith("cA", "cCB", Fns({"eAifC", "eA"}, {"eA"}), WritesA, {"c"})
SpecOrderMixed == InitOrderMixed /\ [][Next]_vars

\* the program with DOM bindings
\* the programs whose effects write signals: to another signal, and to the
\* signal they read
InitWriters == InitWriter \/ InitReenter
SpecWriters == InitWriters /\ [][Next]_vars

\* the programs in which a write reaches an effect along two paths, or
\* reaches two effects, one of them through a computed
InitPaths == InitDiamond \/ InitOrderMixed
SpecPaths == InitPaths /\ [][Next]_vars

\* the programs that read without tracking, and that subscribe
InitReads == InitUntracked \/ InitSubscribe
SpecReads == InitReads /\ [][Next]_vars

\* the programs whose computeds change their sources or read themselves
InitComputeds == InitDynamic \/ InitCycle
SpecComputeds == InitComputeds /\ [][Next]_vars

\* the programs whose targets drop sources and create effects
InitLists == InitSources \/ InitNested
SpecLists == InitLists /\ [][Next]_vars

NextDom ==
  \/ Next
  \/ \E e \in Effects : \E k \in menu.binds[e] : Bind(e, k)
  \/ \E e \in Effects : CollectElement(e)
  \/ \E e \in Effects, v \in TypedValues : Input(e, v)

WritesDom == [s \in Signals |-> IF s = "a" THEN {1, 2} ELSE {}]
\* an element bound to the signal a by renderAndSubscribe or by
\* subscribeAttribute, next to an effect on a
InitDom ==
  InitFull("cA", "cCB", Fns({}, {"eA"}), WritesDom, {"c"}, MaxWrites,
           Fns({"child", "subscribeValue"}, {}))
SpecDom == InitDom /\ [][NextDom]_vars

\* an <input> given the signal a as an attribute value
WritesOne == [s \in Signals |-> IF s = "a" THEN {1} ELSE {}]
InitAttributes ==
  InitFull("cA", "cCB", Fns({}, {"eA"}), WritesOne, {"c"}, MaxWrites,
           Fns({"className", "value", "title", "subscribeValue"}, {}))
SpecAttributes == InitAttributes /\ [][NextDom]_vars

----------------------------------------------------------------------------
(* Properties *)

\* no two live Nodes link the same source and target: the premise of
\* identifying a Node with its pair
NoNodeAliasing == obs.aliased = FALSE

\* the effect exists and was not disposed
Live(e) == Created(e) /\ fn[e] # Undef
\* what a tracked read of x yields from the current signal values
Current(x) == IF x \in Signals THEN value[x] ELSE PureVal(State, x)
\* the last step was a public operation of the program outside every batch
AtTopLevel == userBatch = <<>>

\* C1: every read of the .value of a computed whose callback reads its
\* inputs through tracked reads only (at top level, in a batch after writes,
\* or inside the evaluation of an effect or of another computed) yields what
\* the callback produces from the current signal values.
C1_ComputedReadIsValid ==
  /\ obs.badReads = {}
  /\ (lastOp.op = "read" /\ lastOp.x \in Computeds /\ TrackedOnly(State, lastOp.x))
       => IF Current(lastOp.x) < 0
          THEN thrown = Current(lastOp.x)
          ELSE thrown = NoErr /\ result = Current(lastOp.x)

\* a read of d = c + b inside a batch, after writes to a and b that left the
\* effect on d in the queue, returned the value for the new a and b
C1_Witness ==
  /\ lastOp = Op("read", "d", 0)
  /\ ~AtTopLevel
  /\ batchedEffect = "e" /\ fn["e"] = "eD"
  /\ hist.seen["e"]["d"] = 0
  /\ value["a"] > 0 /\ value["b"] > 0
  /\ result = value["a"] + 2 * value["b"]
  /\ <<"d", Undef, TRUE>> \in obs.reads

\* C2: when a top-level write or the outermost batch returns, every effect
\* that is not disposed has run after the last change of everything its
\* latest run read: what that run read is what a read yields now.
C2_EffectsCaughtUp ==
  (lastOp.op \in {"write", "batchEnd"} /\ AtTopLevel /\ thrown = NoErr)
     => \A e \in Effects : Live(e) =>
           \A x \in Sources :
              (hist.seen[e][x] # NotRead /\ (x \in Computeds => TrackedOnly(State, x)))
                 => hist.seen[e][x] = Current(x)

\* what holds of every write, from the program or from a callback: each
\* write that changes a value raises the signal's version by one and
\* nothing else raises it, and a write by the program of the value held
\* leaves the version as it was and notifies nothing (no computed is
\* marked, no effect is queued or run)
C3_WriteStep ==
  /\ \A x \in Signals : version'[x] = version[x] + obs'.changed[x]
  /\ lastOp'.op = "write" =>
       LET s == lastOp'.x
           v == lastOp'.v
       IN /\ v # value[s] => obs'.changed[s] >= 1 /\ obs'.refused = {}
          /\ (v # value[s] /\ \A e \in Effects : obs'.runs[e] = 0)
                => version'[s] = version[s] + 1 /\ value'[s] = v
          /\ v = value[s] => /\ version'[s] = version[s]
                              /\ obs'.notified = {}
                              /\ \A e \in Effects : obs'.runs[e] = 0
                              /\ flags' = flags
                              /\ batchedEffect' = batchedEffect
                              /\ nextBatchedEffect' = nextBatchedEffect

\* C3 as stated: every write of a value that is not the value held raises
\* the version by one, every write of the value held changes and notifies
\* nothing.
C3_VersionChangesIffValueDiffers ==
  [][C3_WriteStep /\ obs'.refused = {}]_vars

\* C3, amended: the same, except that a write of a different value made
\* while the drain's iteration counter is above 100 throws and changes
\* neither the value nor the version.
C3_VersionChangesUnlessCycleDetected ==
  [][C3_WriteStep /\ \A r \in obs'.refused : r[2] > CycleLimit]_vars

\* the effect that flips a was created: its run of the iteration after the
\* hundredth wrote a different value, which threw and left a as it was
C3_Witness ==
  /\ lastOp = Op("effect", "e", 0)
  /\ thrown = CycleDetected
  /\ obs.refused = {<<"a", CycleLimit + 1>>}
  /\ version["a"] = obs.changed["a"]
  /\ obs.changed["a"] = CycleLimit + 1
  /\ value["a"] = 1

\* C4: while the outermost batch is open no effect that exists is re-run
\* (only the first run of an effect created in the batch happens), and when
\* it closes each effect runs once and reads the final values only.
C4_EffectsDeferredToOutermostBatch ==
  /\ ~AtTopLevel =>
        \A e \in Effects : obs.runs[e] > 0 => lastOp = Op("effect", e, 0)
  /\ (lastOp.op = "batchEnd" /\ AtTopLevel) =>
        \A e \in Effects :
           /\ obs.runs[e] <= 1
           /\ obs.runs[e] = 1 =>
                 \A x \in Sources :
                    hist.seen[e][x] # NotRead => hist.seen[e][x] = Current(x)

\* inside a batch a was written twice (1, then 2) and the effect on a, which
\* read 0 in its latest run, is still waiting in the queue
C4_Witness ==
  /\ ~AtTopLevel
  /\ lastOp = Op("write", "a", 2)
  /\ version["a"] = 2 /\ value["a"] = 2
  /\ fn["f"] = "eA" /\ hist.seen["f"]["a"] = 0
  /\ batchedEffect = "f"

C6_DiamondRunsOnce ==
  /\ \A c \in Computeds : obs.calls[c] <= 1
  /\ \A e \in Effects : obs.runs[e] <= 1
  /\ (lastOp.op = "write" /\ AtTopLevel /\ obs.changed[lastOp.x] = 1)
        => \A e \in Effects : Live(e) => obs.runs[e] = 1

\* a write changed a with both effects alive: each ran once and read the
\* new value of c and d, each recomputed once
C6_Witness ==
  /\ lastOp.op = "write" /\ lastOp.x = "a" /\ AtTopLevel
  /\ obs.changed["a"] = 1
  /\ Live("e") /\ Live("f")
  /\ obs.runs["e"] = 1 /\ obs.runs["f"] = 1
  /\ obs.calls["c"] = 1 /\ obs.calls["d"] = 1
  /\ hist.seen["e"]["c"] = value["a"] /\ hist.seen["e"]["d"] = value["a"]

\* the computeds a read of which refreshes c: c and those whose callback
\* reads c
Pulls(c) ==
  {c} \cup {k \in Computeds :
             \E i \in 1..Len(FnBody(fn[k])) : FnBody(fn[k])[i].x = c}

\* C7: a write does not invoke the callback of a computed that has no
\* target, nor notify it, unless the step reads its value (or the value of
\* a computed that reads it).
C7_WriteStep ==
  lastOp'.op = "write" =>
     \A c \in Computeds :
        (targets[c] = NoNode /\ \A r \in obs'.reads : r[1] \notin Pulls(c))
           => obs'.calls[c] = 0 /\ c \notin obs'.notified
C7_UnsubscribedComputedIsLazy == [][C7_WriteStep]_vars

\* c was evaluated, has no target, and a write changed its source a: c was
\* not recomputed and holds the value of before
C7_Witness ==
  /\ lastOp.op = "write" /\ lastOp.x = "a" /\ obs.changed["a"] = 1
  /\ targets["c"] = NoNode /\ sources["c"] # NoNode
  /\ version["c"] > 0
  /\ obs.calls["c"] = 0
  /\ value["c"] # value["a"]
  /\ Live("f") /\ obs.runs["f"] = 1

\* the signals the callback `body` reaches through tracked reads
RECURSIVE TrackedSignals(_, _)
TrackedSignals(body, depth) ==
  UNION { IF body[i].op \notin {"read", "readIf"} THEN {}
          ELSE IF body[i].x \in Signals THEN {body[i].x}
          ELSE IF depth = 0 THEN {}
          ELSE TrackedSignals(FnBody(fn[body[i].x]), depth - 1)
          : i \in 1..Len(body) }

\* the signals the step changed
Changed == {s \in Signals : obs.changed[s] > 0}

\* C8: a write that changes only signals a target reaches through untracked
\* reads, or not at all, does not notify the target nor run it, and
\* untracked leaves the evaluation context as it found it, also when the
\* read throws.
C8_UntrackedReadIsNoDependency ==
  /\ "untracked" \notin obs.unrestored
  /\ lastOp.op = "write" =>
        \A t \in Targets :
           (fn[t] # Undef
            /\ Changed \cap TrackedSignals(FnBody(fn[t]), MaxPureDepth) = {})
              => /\ t \notin obs.notified
                 /\ t \in Effects => obs.runs[t] = 0

\* a write changed b, which the effect on c reaches only through the
\* untracked read in c: the effect reading b ran, that one did not
C8_Witness ==
  /\ lastOp.op = "write" /\ lastOp.x = "b" /\ obs.changed["b"] = 1
  /\ AtTopLevel
  /\ Live("e") /\ fn["e"] = "eC" /\ hist.seen["e"]["c"] = value["a"]
  /\ Live("f") /\ obs.runs["f"] = 1
  /\ obs.runs["e"] = 0 /\ obs.notified = {"f"}

\* the Nodes in the target list of x
TargetNodes(x) == Chain(nodes, targets[x], "nextTarget")

\* C9: once dispose() was called on an effect no step runs its callback,
\* also when it was in the queue, and no target list holds a Node of it.
C9_DisposedEffectNeverRuns ==
  \A e \in hist.disposed :
     /\ obs.runs[e] = 0
     /\ \A x \in Sources : \A i \in 1..Len(TargetNodes(x)) :
           NodeTarget(TargetNodes(x)[i]) # e

\* the effect on a was disposed inside a batch while it was in the queue
C9_Witness ==
  /\ lastOp = Op("dispose", "f", 0)
  /\ "f" \in hist.disposed
  /\ batchedEffect = "f"
  /\ hist.seen["f"]["a"] # value["a"]

\* C10 as stated: after every public operation the evaluation context is
\* the one before the call (none, at top level) and the batch depth is its
\* value before the call (1 inside a batch of the program, 0 outside), and
\* so it is after every call made from a callback.
C10_ProcessStateRestored ==
  /\ obs.unrestored = {}
  /\ evalContext = Undef
  /\ batchDepth = (IF AtTopLevel THEN 0 ELSE 1)

\* C11 as stated: when a top-level write or the outermost batch returns or
\* throws, the queue is empty, no effect has NOTIFIED set, and every effect
\* that is not disposed has run after the last change (by the program or by
\* another effect during the drain) of each signal its latest run read.
C11_DrainComplete ==
  (lastOp.op \in {"write", "batchEnd"} /\ AtTopLevel) =>
     /\ batchedEffect = Undef
     /\ \A e \in Effects : "NOTIFIED" \notin flags[e]
     /\ \A e \in Effects : Live(e) =>
           \A s \in Signals :
              hist.seen[e][s] # NotRead => hist.seen[e][s] = value[s]

\* C12: with an effect that on every run writes a different value to the
\* signal it reads, every call ends: no effect runs more than 102 times in
\* a call, the only writes of a different value that fail are those made in
\* drain iteration 101, the first past the limit, they fail with
\* CycleDetected, which the caller of the call that drained receives, and
\* between calls the iteration counter is 0 and the queue that was drained
\* is empty.
C12_RunawayWriteLoopStops ==
  /\ batchIteration = 0
  /\ \A e \in Effects : obs.runs[e] <= CycleLimit + 2
  /\ obs.refused # {} =>
        /\ thrown = CycleDetected
        /\ \A r \in obs.refused : r[2] = CycleLimit + 1
        /\ batchedEffect = Undef

\* the flipping effect was created inside a batch, and the close of the
\* batch drained 101 times, threw CycleDetected and left the effect alive
C12_Witness ==
  /\ lastOp.op = "batchEnd" /\ AtTopLevel
  /\ thrown = CycleDetected
  /\ obs.refused = {<<"a", CycleLimit + 1>>}
  /\ obs.runs["e"] = CycleLimit + 1
  /\ obs.changed["a"] = CycleLimit
  /\ Live("e") /\ fn["e"] = "eAflip"
  /\ batchIteration = 0 /\ batchDepth = 0

\* the computeds whose value the callback of k reads
ReadsOf(k) ==
  {FnBody(fn[k])[i].x : i \in 1..Len(FnBody(fn[k]))} \cap Computeds

\* k reads itself, directly or through the other computed
ReadsItself(k) ==
  k \in ReadsOf(k) \/ \E y \in ReadsOf(k) : k \in ReadsOf(y)

\* C13: every read of a computed that reads itself, directly or through
\* another computed, ends and throws CycleDetected, at top level and from an
\* effect (whose creation then throws it), and the computed holds the error.
C13_SelfReadThrowsCycleDetected ==
  /\ (lastOp.op = "read" /\ lastOp.x \in Computeds /\ ReadsItself(lastOp.x))
        => /\ thrown = CycleDetected
           /\ "HAS_ERROR" \in flags[lastOp.x]
           /\ value[lastOp.x] = CycleDetected
           /\ "RUNNING" \notin flags[lastOp.x]
  /\ \A e \in Effects : \A k \in Computeds :
        (ReadsItself(k) /\ hist.seen[e][k] # NotRead)
           => hist.seen[e][k] = CycleDetected
  /\ (lastOp.op = "effect" /\ fn[lastOp.x] = Undef /\ ReadsItself("c"))
        => thrown = CycleDetected

\* c = a + d, d = c: c was read after a changed, the read evaluated both
\* callbacks once more and threw CycleDetected again
C13_Witness ==
  /\ lastOp = Op("read", "c", 0)
  /\ fn["c"] = "cAD" /\ fn["d"] = "cC"
  /\ value["a"] > 0
  /\ obs.calls["c"] = 1 /\ obs.calls["d"] = 1
  /\ version["c"] > 1
  /\ thrown = CycleDetected

\* what holds of every step when callbacks of computeds throw
C14_Step ==
  /\ \A k \in Computeds :
        (obs'.calls[k] = 1 /\ "HAS_ERROR" \in flags'[k])
           => version'[k] = version[k] + 1 /\ value'[k] = UserError
  /\ (lastOp'.op = "read" /\ lastOp'.x \in Computeds) =>
        LET k == lastOp'.x
            now == PureVal(State', k)
        IN IF now = UserError
           THEN /\ thrown' = UserError
                /\ "HAS_ERROR" \in flags'[k] /\ value'[k] = UserError
           ELSE /\ thrown' = NoErr /\ result' = now
                /\ "HAS_ERROR" \notin flags'[k] /\ value'[k] = now
  /\ (lastOp'.op = "write" /\ thrown' # NoErr) =>
        \E e \in Effects : \E k \in Computeds :
           obs'.runs[e] > 0 /\ hist'.seen[e][k] = UserError

\* C14: an evaluation of a computed whose callback throws stores the error
\* as the value, sets HAS_ERROR and raises the version by one; a read of a
\* computed throws the stored error exactly while the callback throws for
\* the current signal values, and otherwise returns the new value with
\* HAS_ERROR clear; a write throws only what an effect that read the
\* computed during the write threw.
C14_ComputedErrorIsStoredAndRethrown == [][C14_Step]_vars

\* c was evaluated, then threw after a write of a positive a, and after a
\* write of 0 a read recomputed it and returned 0 with HAS_ERROR clear
C14_Witness ==
  /\ lastOp = Op("read", "c", 0)
  /\ fn["c"] = "cAthrow"
  /\ version["c"] = 3 /\ version["a"] = 2
  /\ obs.calls["c"] = 1
  /\ thrown = NoErr /\ result = 0
  /\ "HAS_ERROR" \notin flags["c"]

\* C15: when effects run by the drain of a write or of the outermost batch
\* threw, the call ends with the queue empty, no effect left NOTIFIED and
\* every effect that is not disposed run after the last change of each
\* signal its latest run read (so the effects queued with or after one that
\* threw, in the same pass or a later one, have run); and the call throws
\* the first error an effect threw during the drain, or nothing if none
\* threw.
C15_EffectErrorsAreIsolated ==
  /\ (lastOp.op \in {"write", "batchEnd"} /\ obs.errors # <<>>) =>
        /\ batchedEffect = Undef
        /\ \A e \in Effects : "NOTIFIED" \notin flags[e]
        /\ \A e \in Effects : Live(e) =>
              \A s \in Signals :
                 hist.seen[e][s] # NotRead => hist.seen[e][s] = value[s]
  /\ lastOp.op \in {"write", "batchEnd"} =>
        thrown = (IF obs.errors = <<>> THEN NoErr ELSE obs.errors[1])

\* a batch wrote a and b; when it closed the effect on a threw, the effect on
\* b then wrote a = 0, and a second pass ran the effect on a again: the
\* batch threw the one error
C15_Witness ==
  /\ lastOp.op = "batchEnd" /\ AtTopLevel
  /\ fn["e"] = "eAthrow" /\ fn["f"] = "eBwrA"
  /\ obs.errors = <<UserError>> /\ thrown = UserError
  /\ obs.runs["e"] = 2 /\ obs.runs["f"] = 1
  /\ hist.seen["e"]["a"] = 0 /\ value["a"] = 0

\* two effects threw during one drain: the call threw the first error
C15_WitnessTwoErrors ==
  /\ lastOp.op \in {"write", "batchEnd"}
  /\ Len(obs.errors) = 2 /\ obs.errors[1] # obs.errors[2]
  /\ thrown = obs.errors[1]

\* what holds when the batch that opened the transaction ends, whatever the
\* way: the depth is 0 again, the queue is empty, no effect is left NOTIFIED
\* and every effect that is not disposed has run after the last change of
\* each signal its latest run read
BatchClosed ==
  /\ batchDepth = 0
  /\ batchedEffect = Undef
  /\ \A e \in Effects : "NOTIFIED" \notin flags[e]
  /\ \A e \in Effects : Live(e) =>
        \A x \in Signals : hist.seen[e][x] # NotRead => hist.seen[e][x] = value[x]

\* C16 as stated: when the callback of an outermost batch throws, the
\* transaction is closed (depth 0, the effects pending from the writes made
\* before the throw have run) and batch throws the callback's error.
C16_BatchThrowsCallbackError ==
  (lastOp.op = "batchThrow" /\ lastOp.v = 1) =>
     BatchClosed /\ thrown = BatchError

\* what the code does where no finalizer skipped its endBatch: the
\* transaction is closed, and batch throws the callback's error unless an
\* effect run by the closing drain threw: then the first error of the drain
\* leaves the finally block and the callback's error is lost
ThrowingBatchIsClosed ==
  (lastOp.op = "batchThrow" /\ lastOp.v = 1) =>
     /\ BatchClosed
     /\ thrown = (IF obs.errors = <<>> THEN BatchError ELSE obs.errors[1])

\* the callback wrote a and b and threw; the closing drain ran both effects,
\* one of them threw, and batch threw that effect's error
ThrowingBatchEffectError ==
  /\ lastOp = Op("batchThrow", Undef, 1)
  /\ fn["e"] = "eAthrow" /\ fn["f"] = "eBwrA"
  /\ obs.runs["e"] = 2 /\ obs.runs["f"] = 1
  /\ obs.errors = <<UserError>> /\ thrown = UserError
  /\ batchDepth = 0 /\ value["a"] = 0 /\ value["b"] > 0

\* the callback wrote b and threw; the closing drain ran the effect on b,
\* no effect threw, and batch threw the callback's error
ThrowingBatchCallbackError ==
  /\ lastOp = Op("batchThrow", Undef, 1)
  /\ fn["f"] = "eBwrA" /\ obs.runs["f"] = 1
  /\ obs.errors = <<>> /\ thrown = BatchError
  /\ batchDepth = 0

C18_CleanupInvokedOnce ==
  /\ obs.miscleaned = {}
  /\ \A e \in Effects : hist.owed[e] => Live(e)
  /\ \A e \in Effects : obs.cleaned[e] <= obs.runs[e] + 1

\* a write re-ran an effect that returns a cleanup function on every run:
\* the previous run's was invoked once, the new run's is still to invoke
C18_Witness ==
  /\ lastOp.op = "write" /\ lastOp.x = "a"
  /\ fn["e"] = "eAcl"
  /\ obs.runs["e"] = 1 /\ obs.cleaned["e"] = 1
  /\ hist.owed["e"]

\* dispose() invoked the cleanup function of the latest run, once
C18_WitnessDispose ==
  /\ lastOp = Op("dispose", "e", 0)
  /\ obs.cleaned["e"] = 1 /\ obs.runs["e"] = 0
  /\ ~hist.owed["e"] /\ ~Live("e")

\* the cleanup function that throws was invoked once, before the run it
\* precedes, which did not take place
C18_WitnessThrowingCleanup ==
  /\ lastOp.op = "write" /\ lastOp.x = "a"
  /\ obs.cleaned["f"] = 1 /\ obs.runs["f"] = 0
  /\ thrown = UserError /\ ~Live("f")

\* C19: when dispose() is called on an effect during its run, the run goes
\* on to its end; once the step is over the effect has no source list and
\* no callback, no target list holds a Node of it (also of the sources it
\* read after the call), the cleanup function of that run has been invoked,
\* and no later step runs its callback.
C19_DisposeDuringRunIsDeferred ==
  /\ \A e \in obs.deferred : e \in obs.returned /\ obs.runs[e] = 1
  /\ \A e \in hist.deferred :
        /\ sources[e] = NoNode /\ fn[e] = Undef
        /\ \A x \in Sources : \A i \in 1..Len(TargetNodes(x)) :
              NodeTarget(TargetNodes(x)[i]) # e
        /\ ~hist.owed[e] /\ cleanup[e] = Undef
        /\ e \in obs.deferred => obs.cleaned[e] >= 1
        /\ e \notin obs.deferred => obs.runs[e] = 0

\* a write of a re-ran e, which called its dispose() and then read b for
\* the first time; the cleanup functions of the previous run and of this
\* run were invoked and e is subscribed to nothing
C19_Witness ==
  /\ lastOp.op = "write" /\ lastOp.x = "a"
  /\ "e" \in obs.deferred /\ fn["e"] = Undef
  /\ hist.seen["e"]["a"] > 0 /\ hist.seen["e"]["b"] # NotRead
  /\ obs.cleaned["e"] = 2
  /\ sources["e"] = NoNode /\ targets["b"] = NoNode

\* a later write of b, which e read after the call, ran the other effect
\* on b and not e
C19_WitnessLaterWrite ==
  /\ "e" \in hist.deferred /\ hist.seen["e"]["b"] # NotRead
  /\ lastOp.op = "write" /\ lastOp.x = "b" /\ obs.changed["b"] = 1
  /\ fn["f"] = "eBwrA" /\ obs.runs["f"] = 1 /\ obs.runs["e"] = 0

\* C20: dispose() on an effect that is disposed already (by an earlier
\* dispose(), by a call during its run, by a first run or a cleanup function
\* that threw) returns normally, invokes no cleanup function, runs no
\* callback and changes no field of any object and no module variable.
C20_Step ==
  (lastOp'.op = "dispose" /\ Created(lastOp'.x) /\ fn[lastOp'.x] = Undef) =>
     /\ thrown' = NoErr
     /\ obs'.cleaned = [e \in Effects |-> 0]
     /\ obs'.runs = [e \in Effects |-> 0]
     /\ engine' = engine
C20_DisposeIsIdempotent == [][C20_Step]_vars

\* dispose() was called on an effect that an earlier dispose() had disposed
\* and whose cleanup function that call had invoked, while the other
\* effect is subscribed
C20_Witness ==
  /\ lastOp = Op("dispose", "e", 1)
  /\ "e" \in hist.disposed /\ "e" \notin hist.deferred \cup hist.failed
  /\ menu.fns["e"] = {"eAcl", "eAclIf", "eAdispIf"}
  /\ Live("f") /\ targets["a"] # NoNode
  /\ thrown = NoErr

\* the Nodes in the source list of t
SourceNodes(t) == Chain(nodes, sources[t], "nextSource")
\* the callbacks that are the effect of x.subscribe(fn), and their x
Subscriptions == {"sA", "sAfnB", "sCfnB"}
Subject(p) == FnBody(p)[1].x

\* C21: x.subscribe(fn) calls fn once, with the current value, before it
\* returns; a top-level write that changes x calls fn once with the new
\* value and any other top-level write (to a signal fn reads, or of the
\* value held) does not call it; inside a batch fn is not called, and the
\* end of the batch calls it at most once, with the value x has then; x is
\* the only source of the subscription, and after the disposer was called
\* fn is never called.
C21_SubscribeFollowsTheSignal ==
  \A e \in Effects :
     /\ ~Live(e) => obs.told[e] = <<>>
     /\ (Live(e) /\ fn[e] \in Subscriptions) =>
           LET x == Subject(fn[e])
           IN /\ Len(SourceNodes(e)) = 1 /\ NodeSource(SourceNodes(e)[1]) = x
              /\ \A i \in 1..Len(TargetNodes("b")) : NodeTarget(TargetNodes("b")[i]) # e
              /\ hist.seen[e][x] = Current(x) \/ ~AtTopLevel
              /\ CASE lastOp.op = "effect" /\ lastOp.x = e ->
                         obs.told[e] = <<Current(x)>>
                     [] lastOp.op = "write" /\ AtTopLevel ->
                         obs.told[e] = IF obs.changed["a"] > 0 THEN <<Current(x)>> ELSE <<>>
                     [] lastOp.op \in {"batchEnd", "batchThrow"} /\ AtTopLevel ->
                         obs.told[e] \in {<<>>, <<Current(x)>>}
                     [] OTHER -> obs.told[e] = <<>>

\* a top-level write changed a: the fn subscribed to a, which reads b, was
\* called once with the new value; b had been written before
C21_Witness ==
  /\ lastOp.op = "write" /\ lastOp.x = "a" /\ AtTopLevel
  /\ fn["e"] = "sAfnB" /\ obs.told["e"] = <<value["a"]>>
  /\ value["a"] = 2 /\ value["b"] > 0

\* a top-level write changed b, which the fn subscribed to a reads: fn was
\* not called, the effect on b ran
C21_WitnessOtherSignal ==
  /\ lastOp.op = "write" /\ lastOp.x = "b" /\ obs.changed["b"] = 1
  /\ fn["e"] = "sAfnB" /\ obs.told["e"] = <<>>
  /\ fn["f"] = "eB" /\ obs.runs["f"] = 1

\* the source the callback p reads through peek() only
Peeked(p) == FnBody(p)[1].x
PeekOnly == {"cPkAB", "ePkAB", "ePkDB"}

\* C22: peek() returns what a read of the source yields from the current
\* signal values and leaves the evaluation context as it was; a target that
\* only peeks a source has no Node for it, in its source list or in the
\* source's target list; a write to a neither runs the effects that peek a
\* (or d = a) and read b, nor notifies or re-evaluates the computed
\* c = a.peek() + b, nor runs the effect on c.
C22_PeekRecordsNoDependency ==
  /\ obs.badPeeks = {}
  /\ "peek" \notin obs.unrestored
  /\ \A t \in Targets : fn[t] \in PeekOnly =>
        /\ \A i \in 1..Len(SourceNodes(t)) : NodeSource(SourceNodes(t)[i]) # Peeked(fn[t])
        /\ \A i \in 1..Len(TargetNodes(Peeked(fn[t]))) :
              NodeTarget(TargetNodes(Peeked(fn[t]))[i]) # t
  /\ (lastOp.op = "write" /\ lastOp.x = "a") =>
        /\ "c" \notin obs.notified /\ obs.calls["c"] = 0
        /\ \A e \in Effects : fn[e] \in PeekOnly \cup {"eC"} => obs.runs[e] = 0

\* a top-level write changed a and ran the effect on a; the effect that
\* peeked a in its last run, and saw another value, did not run
C22_Witness ==
  /\ lastOp.op = "write" /\ lastOp.x = "a" /\ obs.changed["a"] = 1 /\ AtTopLevel
  /\ fn["e"] = "ePkAB" /\ hist.seen["e"]["b"] # NotRead /\ obs.runs["e"] = 0
  /\ fn["f"] = "eA" /\ obs.runs["f"] = 1

\* a write to b re-ran the effect that peeks the computed d = a, inside the
\* effect's context, after a had changed: the peek refreshed d
C22_WitnessRefreshed ==
  /\ lastOp.op = "write" /\ lastOp.x = "b"
  /\ fn["e"] = "ePkDB" /\ obs.runs["e"] = 1
  /\ <<"d", "e">> \in obs.peeks /\ obs.calls["d"] = 1
  /\ value["d"] = value["a"] /\ value["a"] > 0

\* the sources the latest run of e read through .value
ReadInLatestRun(e) == {x \in Sources : hist.seen[e][x] # NotRead}

\* C23: the sources of an effect that is not disposed are those its latest
\* run read, in its source list and in the target lists; a top-level write
\* to a signal the latest run did not read does not run the effect, and an
\* effect that reads no value runs in no step but the one that creates it.
C23_DependenciesOfLatestRunOnly ==
  \A e \in Effects : Live(e) =>
     /\ {NodeSource(SourceNodes(e)[i]) : i \in 1..Len(SourceNodes(e))} = ReadInLatestRun(e)
     /\ \A x \in Sources :
           (\E i \in 1..Len(TargetNodes(x)) : NodeTarget(TargetNodes(x)[i]) = e)
              <=> x \in ReadInLatestRun(e)
     /\ (lastOp.op = "write" /\ AtTopLevel /\ lastOp.x \notin ReadInLatestRun(e))
           => obs.runs[e] = 0
     /\ (ReadInLatestRun(e) = {} /\ ~(lastOp.op = "effect" /\ lastOp.x = e))
           => obs.runs[e] = 0

\* the effect read b while a was positive; its latest run, with a = 0, did
\* not; a top-level write then changed b and ran the effect on b only
C23_Witness ==
  /\ lastOp.op = "write" /\ lastOp.x = "b" /\ obs.changed["b"] = 1 /\ AtTopLevel
  /\ fn["e"] = "eAifB" /\ hist.seen["e"]["a"] = 0 /\ hist.seen["e"]["b"] = NotRead
  /\ hist.everRead["e"] = {"a", "b"} /\ obs.runs["e"] = 0
  /\ fn["f"] = "eB" /\ obs.runs["f"] = 1

\* writes changed a and b; the effect that reads no value did not run
C23_WitnessReadsNothing ==
  /\ lastOp.op = "write" /\ obs.changed[lastOp.x] = 1 /\ AtTopLevel
  /\ fn["f"] = "eNone" /\ obs.runs["f"] = 0
  /\ value["a"] > 0 /\ value["b"] > 0

\* the step drained the queue
Drained == lastOp.op \in {"write", "batchEnd", "batchThrow"} /\ obs.passes = 1

TargetOwners(x) == [i \in 1..Len(TargetNodes(x)) |-> NodeTarget(TargetNodes(x)[i])]

\* C25 as stated: a top-level write that changes a signal notifies the
\* targets subscribed to it in the order in which they subscribed.
C25_NotifiedInSubscriptionOrder ==
  (lastOp.op = "write" /\ AtTopLevel) =>
     \A i, j \in 1..Len(obs.notifySeq) :
        (i < j /\ Pos(hist.subscribed[lastOp.x], obs.notifySeq[i]) > 0
               /\ Pos(hist.subscribed[lastOp.x], obs.notifySeq[j]) > 0)
           => Pos(hist.subscribed[lastOp.x], obs.notifySeq[i])
                 < Pos(hist.subscribed[lastOp.x], obs.notifySeq[j])

\* C25, amended: the target list of a source holds the Nodes of the
\* targets subscribed to it, the latest subscriber at the head, and a
\* top-level write that changes a signal notifies them from the head: the
\* latest subscriber first, the earliest last.
C25_NotifiedInReverseSubscriptionOrder ==
  /\ \A x \in Sources :
        /\ Len(TargetOwners(x)) = Len(hist.subscribed[x])
        /\ \A i \in 1..Len(TargetOwners(x)) :
              TargetOwners(x)[i] = hist.subscribed[x][Len(TargetOwners(x)) + 1 - i]
  /\ (lastOp.op = "write" /\ AtTopLevel /\ obs.changed[lastOp.x] > 0) =>
        /\ \A i \in 1..Len(hist.subscribed[lastOp.x]) :
              Pos(obs.notifySeq, hist.subscribed[lastOp.x][i]) > 0
        /\ \A i, j \in 1..Len(obs.notifySeq) :
              (i < j /\ Pos(hist.subscribed[lastOp.x], obs.notifySeq[i]) > 0
                     /\ Pos(hist.subscribed[lastOp.x], obs.notifySeq[j]) > 0)
                 => Pos(hist.subscribed[lastOp.x], obs.notifySeq[i])
                       > Pos(hist.subscribed[lastOp.x], obs.notifySeq[j])

\* two effects on a, e created first; a top-level write changed a, notified
\* f and then e, and the drain ran e and then f
C25_Witness ==
  /\ lastOp.op = "write" /\ lastOp.x = "a" /\ AtTopLevel
  /\ hist.subscribed["a"] = <<"e", "f">>
  /\ obs.notifySeq = <<"f", "e">>
  /\ obs.runSeq = <<"e", "f">>

\* the bindings that subscribe: renderAndSubscribe and subscribeAttribute
Subscribing == {"child", "title", "subscribeValue"}
\* the elements of such bindings that were collected
Collected == {t \in Effects : dom[t].bound \in Subscribing /\ ~dom[t].alive}

\* C26: once the element of a renderAndSubscribe or subscribeAttribute
\* binding has been collected, a step invokes the subscriber at most once
\* and writes nothing to the element; the step that invokes it disposes the
\* subscription (the effect loses its callback and its source list and no
\* target list holds a Node of it); a write outside a batch that changed the
\* signal leaves the subscription disposed; and no step after the disposal
\* invokes the subscriber.
C26_Collected ==
  \A t \in Collected :
     /\ obs.domOps[t] = 0
     /\ obs.runs[t] <= 1 /\ Len(obs.told[t]) = obs.runs[t]
     /\ obs.runs[t] = 1 =>
           /\ t \in obs.deferred
           /\ fn[t] = Undef /\ sources[t] = NoNode
           /\ \A x \in Sources : \A i \in 1..Len(TargetNodes(x)) :
                 NodeTarget(TargetNodes(x)[i]) # t
     /\ (lastOp.op = "write" /\ obs.changed["a"] = 1 /\ batchDepth = 0)
           => t \in hist.deferred
C26_Step ==
  \A t \in Collected : t \in hist.deferred => obs'.runs[t] = 0
C26_BindingDropsSubscription == []C26_Collected /\ [][C26_Step]_vars

\* the first write after the <div> of a renderAndSubscribe binding was
\* collected invoked the subscriber, which disposed the subscription
C26_Witness ==
  /\ dom["e"].bound = "child" /\ "e" \in Collected
  /\ lastOp.op = "write" /\ obs.changed["a"] = 1
  /\ obs.runs["e"] = 1 /\ "e" \in obs.deferred /\ fn["e"] = Undef
  /\ dom["e"].text # NoValue /\ dom["e"].text # Str(value["a"])

\* the same for the <input> of a subscribeAttribute binding
C26_WitnessAttribute ==
  /\ dom["e"].bound = "subscribeValue" /\ "e" \in Collected
  /\ lastOp.op = "write" /\ obs.changed["a"] = 1
  /\ obs.runs["e"] = 1 /\ "e" \in obs.deferred /\ fn["e"] = Undef
  /\ dom["e"].attr # Str(value["a"])

\* a later write changed the signal and ran the effect on it, and not the
\* subscriber
C26_WitnessLaterChange ==
  /\ "e" \in Collected /\ "e" \in hist.deferred /\ "e" \notin obs.deferred
  /\ lastOp.op = "write" /\ obs.changed["a"] = 1
  /\ obs.runs["e"] = 0 /\ obs.runs["f"] = 1


\* what the element of binding t shows for the key it was given
Shown(t) == IF dom[t].bound \in PropertyKeys THEN dom[t].prop ELSE dom[t].attr

\* C27: an element that createDomElement was given the signal for the key
\* className, value or title shows the string of the signal's current value
\* whenever no batch is open, and when the user has typed into an <input>
\* given the signal as its value the signal holds what was typed.
C27_AttributeFollowsSignal ==
  \A t \in Effects :
     (dom[t].bound \in {"className", "value", "title"} /\ dom[t].alive
        /\ batchDepth = 0) =>
        /\ Shown(t) = Str(value["a"])
        /\ (dom[t].bound = "value" /\ lastOp = Op("input", t, lastOp.v))
              => value["a"] = dom[t].typed


\* the sources in the source list of t
SourcesOf(t) == {NodeSource(SourceNodes(t)[i]) : i \in 1..Len(SourceNodes(t))}

\* C28: a step that calls the callback of a computed once, not for the
\* first time, with no error stored before or after, and that leaves the
\* stored value as it was, leaves the version of the computed as it was;
\* when the step is a write outside a batch that changed the signal, every
\* effect whose only source is that computed was notified, did not run its
\* callback and is no longer queued.
C28_Step ==
  \A c \in Computeds :
     (/\ obs'.calls[c] = 1 /\ version[c] > 0
      /\ "HAS_ERROR" \notin flags[c] \cup flags'[c]
      /\ value'[c] = value[c]) =>
        /\ version'[c] = version[c]
        /\ (lastOp'.op = "write" /\ obs'.changed[lastOp'.x] = 1 /\ batchDepth = 0) =>
              \A t \in Effects :
                 (Live(t) /\ SourcesOf(t) = {c}) =>
                    /\ Pos(obs'.notifySeq, t) > 0
                    /\ obs'.runs[t] = 0
                    /\ "NOTIFIED" \notin flags'[t]
                    /\ batchedEffect' = Undef
C28_MemoizationCutOff == [][C28_Step]_vars

\* a write changed a from one positive value to another: c was recomputed
\* to the value it had and kept its version, the effect on c was notified
\* and did not run, the effect on a ran
C28_Witness ==
  /\ lastOp.op = "write" /\ lastOp.x = "a" /\ obs.changed["a"] = 1
  /\ obs.calls["c"] = 1 /\ value["c"] = 1 /\ version["c"] = 2
  /\ fn["e"] = "eC" /\ Pos(obs.notifySeq, "e") > 0 /\ obs.runs["e"] = 0
  /\ fn["f"] = "eA" /\ obs.runs["f"] = 1
  /\ batchedEffect = Undef

\* the same write with the computed that throws: the error it stores is the
\* one it stored before and its version was bumped, so the effect on it ran
C28_WitnessError ==
  /\ lastOp.op = "write" /\ lastOp.x = "a" /\ obs.changed["a"] = 1
  /\ obs.calls["d"] = 1 /\ value["d"] = UserError /\ version["d"] = 3
  /\ fn["f"] = "eD" /\ obs.runs["f"] = 1


\* C29: a step that reads a computed evaluated before calls its callback
\* only if the version of one of the sources in its source list differs,
\* once the step is over, from the version its Node recorded; a read that
\* follows a read of the same computed calls no callback; and a read that
\* calls no callback returns the stored value or throws the stored error.
C29_Step ==
  \A c \in Computeds :
     (lastOp' = Op("read", c, 0) /\ version[c] > 0) =>
        /\ obs'.calls[c] <= 1
        /\ obs'.calls[c] = 1 =>
              \E i \in 1..Len(SourceNodes(c)) :
                 version'[NodeSource(SourceNodes(c)[i])]
                    # nodes[SourceNodes(c)[i]].version
        /\ lastOp = Op("read", c, 0) => obs'.calls = [x \in Computeds |-> 0]
        /\ obs'.calls[c] = 0 =>
              /\ value'[c] = value[c] /\ version'[c] = version[c]
              /\ IF "HAS_ERROR" \in flags[c]
                 THEN thrown' = value[c]
                 ELSE thrown' = NoErr /\ result' = value[c]
C29_ReadRecomputesOnlyOnChange == [][C29_Step]_vars

\* c was read after a write of b, which its last evaluation did not read
\* (a was 0): the read called no callback and returned the stored 0
C29_Witness ==
  /\ lastOp = Op("read", "c", 0) /\ obs.calls["c"] = 0
  /\ version["c"] = 1 /\ cGlobalVersion["c"] = globalVersion /\ globalVersion > 0
  /\ value["a"] = 0 /\ value["b"] > 0 /\ result = 0
  /\ ~Created("e") /\ ~Created("f")

\* d was read again while it stores an error: the read called no callback
\* and threw the error
C29_WitnessStoredError ==
  /\ lastOp = Op("read", "d", 0) /\ obs.calls["d"] = 0
  /\ "HAS_ERROR" \in flags["d"] /\ thrown = UserError

\* c was read after a write of a, which it reads: the read called the callback
C29_WitnessChanged ==
  /\ lastOp = Op("read", "c", 0) /\ obs.calls["c"] = 1 /\ version["c"] = 2


\* the Node n is linked in the target list of its source
InTargetList(n) ==
  \E i \in 1..Len(TargetNodes(NodeSource(n))) : TargetNodes(NodeSource(n))[i] = n

\* C30: after every step a computed has TRACKING exactly when its target
\* list is not empty; with targets every Node of its source list is linked
\* in the target list of its source, without targets none is.
C30_TrackingIffTargets ==
  \A c \in Computeds :
     /\ ("TRACKING" \in flags[c]) <=> (targets[c] # NoNode)
     /\ \A i \in 1..Len(SourceNodes(c)) :
           InTargetList(SourceNodes(c)[i]) <=> (targets[c] # NoNode)

\* the first effect on d was created after d had been evaluated: d and its
\* source c became TRACKING and their Nodes entered the target lists of
\* b, c and a
C30_Witness ==
  /\ lastOp.op = "effect" /\ Live(lastOp.x) /\ fn[lastOp.x] = "eD"
  /\ Len(TargetNodes("d")) = 1 /\ Len(TargetNodes("c")) = 1
  /\ "TRACKING" \in flags["d"] /\ "TRACKING" \in flags["c"]
  /\ Len(SourceNodes("d")) = 2 /\ Len(SourceNodes("c")) >= 1
  /\ InTargetList(<<"a", "c">>) /\ InTargetList(<<"b", "d">>)
  /\ obs.calls["d"] = 0

\* the only effect on d was disposed: d and c lost their last target and
\* TRACKING, they keep their source lists and no target list holds a Node
C30_WitnessLastTarget ==
  /\ lastOp.op = "dispose" /\ fn[lastOp.x] = Undef
  /\ targets["d"] = NoNode /\ targets["c"] = NoNode
  /\ "TRACKING" \notin flags["d"] \cup flags["c"]
  /\ Len(SourceNodes("d")) = 2 /\ Len(SourceNodes("c")) = 2
  /\ \A x \in Sources : targets[x] = NoNode


\* how many times x occurs in seq
Count(seq, x) == Cardinality({i \in 1..Len(seq) : seq[i] = x})
\* the value-changing writes of the step
TotalChanged == obs.changed["a"] + obs.changed["b"]

\* C31: in a step with one value-changing write, the _notify of each
\* computed and of each effect took effect at most once, however many times
\* it was called; and a write inside a batch leaves the flags of a computed
\* that is NOTIFIED already as they were, without a notification that
\* took effect on it or on an effect that is NOTIFIED already.
C31_Once ==
  (lastOp.op = "write" /\ TotalChanged = 1) =>
     \A t \in Targets : Count(obs.notifySeq, t) <= 1
C31_Step ==
  (lastOp'.op = "write" /\ batchDepth > 0) =>
     \A t \in Targets :
        "NOTIFIED" \in flags[t] =>
           /\ flags'[t] = flags[t]
           /\ Count(obs'.notifySeq, t) = 0
C31_NotifiedOncePerWrite == []C31_Once /\ [][C31_Step]_vars

\* a write of a called _notify of c twice, from a and from d, and of the
\* effect on c and d twice; each took effect once
C31_Witness ==
  /\ lastOp.op = "write" /\ TotalChanged = 1
  /\ obs.notifyCalls["c"] = 2 /\ Count(obs.notifySeq, "c") = 1
  /\ fn["f"] = "eCD" /\ obs.notifyCalls["f"] = 2 /\ Count(obs.notifySeq, "f") = 1
  /\ obs.runs["f"] = 1 /\ obs.calls["c"] = 1

\* a second write of a inside a batch called _notify of c, which was
\* NOTIFIED by the first write: nothing was notified
C31_WitnessInBatch ==
  /\ lastOp.op = "write" /\ TotalChanged = 1 /\ batchDepth > 0
  /\ obs.notifyCalls["c"] >= 1 /\ obs.notifySeq = <<>>
  /\ "NOTIFIED" \in flags["c"] /\ Live("e")


\* the scheduler's queue of pending effects
Pending == Queue(nextBatchedEffect, batchedEffect)

\* C32: after every step the pending queue holds no effect twice and holds
\* exactly the effects whose NOTIFIED flag is set; the same was true, with
\* the part of the queue still to be visited counted in, each time a drain
\* had taken an effect off the queue and cleared its flag.
C32_QueuedIffNotified ==
  /\ NoRepeat(Pending)
  /\ \A e \in Effects : Pos(Pending, e) > 0 <=> "NOTIFIED" \in flags[e]
  /\ ~obs.misqueued

\* two writes inside a batch queued both effects
C32_Witness ==
  /\ lastOp.op = "write" /\ batchDepth = 1
  /\ Len(Pending) = 2
  /\ "NOTIFIED" \in flags["e"] /\ "NOTIFIED" \in flags["f"]

\* the end of that batch drained the queue in two passes: the effect on b
\* wrote a after the effect on a had been taken off the queue, which queued
\* it again
C32_WitnessRequeued ==
  /\ lastOp.op = "batchEnd" /\ batchDepth = 0
  /\ obs.passes = 2 /\ obs.runs["e"] = 2 /\ obs.runs["f"] = 1
  /\ fn["f"] = "eBwrA"
  /\ Pending = <<>> /\ "NOTIFIED" \notin flags["e"] \cup flags["f"]


\* the sources in the source list of t, in the order of the list
SourceSeq(t) == [i \in 1..Len(SourceNodes(t)) |-> NodeSource(SourceNodes(t)[i])]
\* the targets that were evaluated and not disposed
Evaluated == Computeds \cup {e \in Effects : Live(e)}

\* C33: after every step the source list of each computed and of each
\* effect that is not disposed holds the sources its last evaluation read
\* through .value, once each, in the order of their first reads; no Node of
\* the list has the version -1; and no target list holds a Node of it for a
\* source that evaluation did not read.
C33_SourcesOfLastEvaluation ==
  \A t \in Evaluated :
     /\ SourceSeq(t) = hist.readSeq[t]
     /\ \A i \in 1..Len(SourceNodes(t)) :
           nodes[SourceNodes(t)[i]].version # Recyclable
     /\ \A x \in Sources : \A i \in 1..Len(TargetNodes(x)) :
           NodeTarget(TargetNodes(x)[i]) = t => Pos(hist.readSeq[t], x) > 0

\* a write made a positive: the effect read a and threw before it read b,
\* which it had read in its run before; its source list is a alone and b
\* has no target
C33_Witness ==
  /\ lastOp.op = "write" /\ lastOp.x = "a" /\ obs.changed["a"] = 1
  /\ Live("e") /\ <<"e", UserError>> \in obs.threw
  /\ "b" \in hist.everRead["e"]
  /\ SourceSeq("e") = <<"a">> /\ targets["b"] = NoNode

\* d = c + b was evaluated while c, evaluated inside it, read a and b
\* before d read b
C33_WitnessNested ==
  /\ obs.calls["d"] = 1 /\ obs.calls["c"] = 1
  /\ SourceSeq("c") = <<"a", "b">> /\ SourceSeq("d") = <<"c", "b">>
  /\ Live("f") /\ fn["f"] = "eCD" /\ SourceSeq("f") = <<"c", "d">>

\* c dropped b: a became 0 and its evaluation read a alone
C33_WitnessDropped ==
  /\ lastOp.op = "write" /\ obs.calls["c"] = 1 /\ value["a"] = 0
  /\ SourceSeq("c") = <<"a">> /\ "TRACKING" \in flags["c"]
  /\ \A i \in 1..Len(TargetNodes("b")) : NodeTarget(TargetNodes("b")[i]) # "c"


\* the list q is doubly linked by the fields prev and next of its Nodes
WellLinked(q, prev, next) ==
  /\ NoRepeat(q)
  /\ \A i \in 1..Len(q) :
        /\ nodes[q[i]][prev] = IF i = 1 THEN NoNode ELSE q[i - 1]
        /\ nodes[q[i]][next] = IF i = Len(q) THEN NoNode ELSE q[i + 1]
\* the Node n is linked in the source list of its target
InSourceList(n) == Pos(SourceNodes(NodeTarget(n)), n) > 0

\* C34: after every step each source list is a doubly linked list, without
\* repeats, of Nodes of its own target, and each target list one of Nodes
\* of its own source; a Node in a target list is in the source list of its
\* target; every Node in the source list of an effect that is not disposed
\* is in the target list of its source; a disposed effect has no source
\* list; and a Node in no source list is in no target list.
C34_GraphConsistency ==
  /\ \A t \in Targets :
        /\ WellLinked(SourceNodes(t), "prevSource", "nextSource")
        /\ \A i \in 1..Len(SourceNodes(t)) : NodeTarget(SourceNodes(t)[i]) = t
  /\ \A x \in Sources :
        /\ WellLinked(TargetNodes(x), "prevTarget", "nextTarget")
        /\ \A i \in 1..Len(TargetNodes(x)) :
              /\ NodeSource(TargetNodes(x)[i]) = x
              /\ InSourceList(TargetNodes(x)[i])
  /\ \A e \in Effects :
        /\ Live(e) => \A i \in 1..Len(SourceNodes(e)) : InTargetList(SourceNodes(e)[i])
        /\ (Created(e) /\ ~Live(e)) => sources[e] = NoNode
  /\ \A n \in DOMAIN nodes :
        ~InSourceList(n) =>
           /\ ~InTargetList(n)
           /\ nodes[n].prevTarget = NoNode /\ nodes[n].nextTarget = NoNode

\* both effects are subscribed, the second through d and c: the target
\* list of b holds the Nodes of d, c and e
C34_Witness ==
  /\ Live("e") /\ Live("f")
  /\ SourceSeq("e") = <<"a", "b">> /\ SourceSeq("f") = <<"c", "d">>
  /\ Len(TargetNodes("b")) = 3 /\ Len(TargetNodes("a")) = 2
  /\ Len(TargetNodes("c")) = 2

\* an effect was disposed after the other had dropped b: its Nodes and the
\* Nodes of the computeds it alone had subscribed are in no list
C34_WitnessDisposed ==
  /\ lastOp = Op("dispose", "f", 0)
  /\ Live("e") /\ SourceSeq("e") = <<"a">> /\ "b" \in hist.everRead["e"]
  /\ TargetNodes("a") = <<(<<"a", "e">>)>> /\ targets["b"] = NoNode
  /\ targets["c"] = NoNode /\ targets["d"] = NoNode
  /\ Len(SourceNodes("d")) = 2


\* C35: in every step each callback of an effect started at a batch depth
\* of at least 1 and not while a callback of the same effect was
\* executing, no _start found RUNNING set, and an effect ran at most once
\* in each pass of a drain (and once more in a step that creates effects).
C35_RunsNeverNest ==
  /\ obs.unbatched = {} /\ obs.reentered = {} /\ obs.guarded = {}
  /\ obs.active = {}
  /\ \A e \in Effects :
        obs.runs[e] <= obs.passes + IF lastOp.op = "effect" THEN 1 ELSE 0

\* a write made a positive: the effect on a ran, wrote 0 to a during the
\* run, which queued it, and ran again in the second pass
C35_Witness ==
  /\ lastOp.op = "write" /\ lastOp.x = "a" /\ lastOp.v > 0
  /\ fn["e"] = "eAzero" /\ obs.runs["e"] = 2 /\ obs.passes = 2
  /\ obs.changed["a"] = 2 /\ value["a"] = 0
  /\ Count(obs.notifySeq, "e") = 2
  /\ batchDepth = 0 /\ Pending = <<>>


\* C36: in every step each finalizer of an effect found that effect as the
\* evaluation context, and no operation threw "Out-of-order effect".
C36_NoOutOfOrderEffect ==
  /\ obs.outOfOrder = {}
  /\ thrown # OutOfOrder
  /\ \A i \in 1..Len(obs.errors) : obs.errors[i] # OutOfOrder
  /\ \A t \in Targets : <<t, OutOfOrder>> \notin obs.threw

\* effect(() => { d.value; effect(...); b.peek() }) was created while a is
\* positive: d threw, so the inner effect was not created; the finalizer ran
\* and the effect was disposed
C36_Witness ==
  /\ lastOp = Op("effect", "e", 0) /\ thrown = UserError
  /\ obs.finalized = 1 /\ <<"e", UserError>> \in obs.threw
  /\ fn["e"] = Undef /\ ~Created("f")
  /\ evalContext = Undef

\* an effect created the other effect during its first run: two finalizers
\* ran, the inner one first
C36_WitnessNested ==
  /\ lastOp = Op("effect", "e", 0) /\ thrown = NoErr
  /\ obs.finalized = 2 /\ obs.runs["e"] = 1 /\ obs.runs["f"] = 1
  /\ Live("e") /\ Live("f") /\ fn["f"] = "eAclThrow"
  /\ SourceSeq("e") = <<"a">> /\ SourceSeq("f") = <<"a">>

\* a write ran the inner effect, whose cleanup function threw before the
\* run, and the outer one
C36_WitnessCleanupThrew ==
  /\ lastOp.op = "write" /\ thrown = UserError
  /\ fn["e"] = "eAmkF" /\ obs.runs["e"] = 1 /\ obs.cleaned["f"] = 1
  /\ obs.runs["f"] = 0 /\ fn["f"] = Undef
  /\ obs.finalized = 1


\* the effects subscribed to the source x, the earliest subscriber first
EffectsOn(x) == SelectSeq(hist.subscribed[x], LAMBDA t : t \in Effects)
\* the step was a write outside a batch that changed its signal and whose
\* drain took one pass
WriteDrained ==
  /\ lastOp.op = "write" /\ AtTopLevel /\ batchDepth = 0
  /\ obs.changed[lastOp.x] = 1 /\ obs.passes = 1

\* C37 as stated: after a write that changed a signal, the effects that
\* are subscribed to it ran in the order in which they subscribed.
C37_RunInSubscriptionOrder ==
  WriteDrained =>
     \A i, j \in 1..Len(EffectsOn(lastOp.x)) :
        (i < j /\ Pos(obs.runSeq, EffectsOn(lastOp.x)[i]) > 0
               /\ Pos(obs.runSeq, EffectsOn(lastOp.x)[j]) > 0)
           => Pos(obs.runSeq, EffectsOn(lastOp.x)[i])
                 < Pos(obs.runSeq, EffectsOn(lastOp.x)[j])

\* C37, amended: after a write that changed a signal, the effects that are
\* subscribed to it and have never read a computed all ran, in the order in
\* which they subscribed.
C37_RunInSubscriptionOrderIfDirect ==
  WriteDrained =>
     \A i, j \in 1..Len(EffectsOn(lastOp.x)) :
        (hist.everRead[EffectsOn(lastOp.x)[i]] \subseteq Signals
           /\ hist.everRead[EffectsOn(lastOp.x)[j]] \subseteq Signals) =>
           /\ Pos(obs.runSeq, EffectsOn(lastOp.x)[i]) > 0
           /\ i < j => Pos(obs.runSeq, EffectsOn(lastOp.x)[i])
                          < Pos(obs.runSeq, EffectsOn(lastOp.x)[j])

\* two effects that read a alone, e created first: a write ran e, then f
C37_Witness ==
  /\ WriteDrained /\ lastOp.x = "a"
  /\ fn["e"] = "eA" /\ fn["f"] = "eA"
  /\ EffectsOn("a") = <<"e", "f">>
  /\ obs.runSeq = <<"e", "f">>

\* e, created first, began to read c after f was created, which subscribed
\* c to a after f: the next write notified e through c before f, and f ran
\* first
C37_WitnessThroughComputed ==
  /\ WriteDrained /\ lastOp.x = "a"
  /\ fn["e"] = "eAifC" /\ EffectsOn("a") = <<"e", "f">>
  /\ TargetOwners("a") = <<"c", "f", "e">>
  /\ obs.notifySeq = <<"c", "e", "f">>
  /\ obs.runSeq = <<"f", "e">>


\* the effects whose callback threw in a run of a drain of the step
ThrewInDrain ==
  {e \in Effects : /\ lastOp.op \in {"write", "batchEnd", "batchThrow"}
                   /\ \E x \in {UserError, OtherError} : <<e, x>> \in obs.threw
                   /\ e \notin obs.deferred}

\* C38: after a step in whose drain the callback of an effect threw, the
\* effect is not disposed and not RUNNING, and its source list holds the
\* sources its last run read, each subscribed; and a write outside a batch
\* that changes a signal in the source list of an effect whose last run
\* threw runs its callback.
C38_Kept ==
  \A e \in ThrewInDrain :
     /\ Live(e) /\ "DISPOSED" \notin flags[e] /\ "RUNNING" \notin flags[e]
     /\ SourceSeq(e) = hist.readSeq[e]
     /\ \A i \in 1..Len(SourceNodes(e)) : InTargetList(SourceNodes(e)[i])
C38_Step ==
  \A e \in Effects :
     (/\ e \in hist.threwLast /\ Live(e) /\ batchDepth = 0
      /\ lastOp'.op = "write" /\ obs'.changed[lastOp'.x] >= 1
      /\ lastOp'.x \in SourcesOf(e)) => obs'.runs[e] >= 1
C38_FailedRerunStaysSubscribed == []C38_Kept /\ [][C38_Step]_vars

\* a write made a positive: the effect, which had read a and b, read a and
\* threw; it is subscribed to a alone
C38_Witness ==
  /\ "e" \in ThrewInDrain /\ lastOp.op = "write" /\ lastOp.x = "a"
  /\ "b" \in hist.everRead["e"] /\ SourceSeq("e") = <<"a">>
  /\ TargetOwners("a") = <<"e">> /\ thrown = UserError

\* the next write of a ran it again: it read a and b and returned
C38_WitnessRanAgain ==
  /\ lastOp.op = "write" /\ lastOp.x = "a" /\ value["a"] = 0
  /\ version["a"] = 2 /\ hist.failed = {}
  /\ obs.runs["e"] = 1 /\ "e" \in obs.returned
  /\ SourceSeq("e") = <<"a", "b">> /\ thrown = NoErr


\* C39: after a step in which the cleanup function of an effect threw
\* before a run, the callback of the effect was not invoked, the effect is
\* disposed (DISPOSED set, RUNNING clear, no callback, no cleanup function,
\* no source list, no Node in a target list), _start left the evaluation
\* context and the batch depth as it found them, and the error is among
\* those the drain caught and the operation threw; and no step runs the
\* callback of a disposed effect.
C39_Disposed ==
  \A e \in obs.startFailed :
     /\ obs.runs[e] = 0 /\ obs.cleaned[e] = 1
     /\ "DISPOSED" \in flags[e] /\ "RUNNING" \notin flags[e]
     /\ fn[e] = Undef /\ cleanup[e] = Undef /\ sources[e] = NoNode
     /\ \A x \in Sources : \A i \in 1..Len(TargetNodes(x)) :
           NodeTarget(TargetNodes(x)[i]) # e
     /\ e \notin obs.startUnrestored /\ evalContext = Undef
     /\ \E i \in 1..Len(obs.errors) : obs.errors[i] = UserError
     /\ thrown # NoErr
C39_Step ==
  \A e \in Effects : (Created(e) /\ fn[e] = Undef) => obs'.runs[e] = 0
C39_ThrowingCleanupDisposes == []C39_Disposed /\ [][C39_Step]_vars

\* a write of a ran the cleanup function the previous run of f had
\* returned, which threw: f did not run and is disposed, the other effect
\* on a ran, and the write threw the error
C39_Witness ==
  /\ lastOp.op = "write" /\ lastOp.x = "a" /\ AtTopLevel
  /\ "f" \in obs.startFailed /\ obs.runs["f"] = 0
  /\ Live("e") /\ obs.runs["e"] = 1
  /\ thrown = UserError /\ batchDepth = 0

\* C40: after map() returned, every element it returned has a data-key
\* attribute, an item that supplied no data-key (none as attribute or
\* property of the element the callback returned, none on the source
\* object, signal value or element) has a key RNG(10) generated, and two
\* such items do not share a key.
SuppliesNoKey(i) ==
  /\ list.returned[i].attr = Absent /\ list.returned[i].prop = Absent
  /\ list.items[i].key \in {Absent, Undef}
Mapped == lastOp.op = "map" /\ thrown = NoErr
C40_FreshKeyForUnkeyedItems ==
  Mapped =>
    /\ \A i \in 1..Len(list.elements) : list.elements[i].attr # Absent
    /\ \A i \in 1..Len(list.elements) :
          SuppliesNoKey(i) => list.elements[i].attr \in RandomKeys
    /\ \A i, j \in 1..Len(list.elements) :
          (i # j /\ SuppliesNoKey(i) /\ SuppliesNoKey(j))
             => list.elements[i].attr # list.elements[j].attr


====
